---- MODULE Spec2Model ----
(***************************************************************************)
(* Model of sprout's dependency resolver (core/deps.rs, ast.rs) and of the *)
(* incremental fetch/build policy that reads and writes the build-state    *)
(* ledger (core/deps.rs, cli.rs).                                          *)
(*                                                                         *)
(* Abstractions:                                                           *)
(*  - Option<T> is a sequence of length 0 (None) or 1 (Some).              *)
(*  - A fingerprint (64-bit SipHash of the derived Hash, then SHA-256,     *)
(*    hex) is represented by the hashed structure itself, i.e. the digest  *)
(*    is taken to be collision free; its 8-character prefix likewise.      *)
(*  - The fetcher, the builder and the downloaded file are external: their *)
(*    outcomes are inputs of the actions.                                  *)
(***************************************************************************)
EXTENDS Naturals, Sequences, FiniteSets, TLC

VARIABLES manifest, lock, dist, sources, cache, edits, last

vars == <<manifest, lock, dist, sources, cache, edits, last>>

\* ------------------------------------------------------------------------
\* Bounds

\* longest body of a string token handed to parse_string on its own
MaxString == 3

\* longest depends_on list of a generated manifest
MaxDeps == 2

\* number of nested visit_dependencies frames the call stack can hold
StackLimit == 5

\* number of times the user edits the manifest in one behaviour
MaxEdits == 1

\* number of batch commands in one behaviour
MaxBatches == 2

\* longest module list handed to validate_manifest
MaxModules == 3

\* longest depends_on list of a module handed to validate_manifest
MaxListed == 1

\* longest text between the quotes of a string written by the user
MaxBody == 2

\* largest number of env entries of a script written by the user
MaxEnv == 2

\* largest number of command lines of a script written by the user
MaxLines == 2

\* ------------------------------------------------------------------------
\* Basic values

Ids == {"a", "b", "c"}

\* ascending order of the identifiers (String's Ord)
IdOrder == <<"a", "b", "c">>

None == <<>>

Some(x) == <<x>>

SeqsUpTo(S, n) == UNION {[1..k -> S] : k \in 0..n}

Range(s) == {s[i] : i \in 1..Len(s)}

Perms(S) == {q \in [1..Cardinality(S) -> S] : Range(q) = S}

Names(modules) == {modules[i].name : i \in 1..Len(modules)}

\* modules.iter().find(|p| p.id() == id): index of the first match, 0 if none
FindModule(modules, id) ==
    LET hits == {i \in 1..Len(modules) : modules[i].name = id}
    IN IF hits = {} THEN 0 ELSE CHOOSE i \in hits : \A j \in hits : i <= j

\* ------------------------------------------------------------------------
\* SproutManifest::get_all_dependencies / visit_dependencies (ast.rs)

RECURSIVE visit_dependencies(_, _, _, _, _)
RECURSIVE VisitDepsLoop(_, _, _, _, _, _)

\* the `for dep in &pkg.depends_on` loop of visit_dependencies, from index k
VisitDepsLoop(modules, deps, k, visited, result, depth) ==
    IF k > Len(deps)
    THEN [visited |-> visited, result |-> result, overflow |-> FALSE]
    ELSE LET r == visit_dependencies(modules, deps[k], visited, result, depth)
         IN IF r.overflow
            THEN r
            ELSE VisitDepsLoop(modules, deps, k + 1, r.visited, r.result, depth)

\* variant: the module is appended but never marked visited
VisitFinish_NoMark(after, module_id) ==
    [visited |-> after.visited,
     result |-> Append(after.result, module_id),
     overflow |-> FALSE]

\* marks the module visited only after its dependencies were visited
VisitFinish(after, module_id) ==
    [visited |-> after.visited \cup {module_id},
     result |-> Append(after.result, module_id),
     overflow |-> FALSE]

\* depth is the number of frames on the call stack; a frame beyond the
\* stack's capacity is a stack overflow, which aborts the process
visit_dependencies(modules, module_id, visited, result, depth) ==
    IF depth > StackLimit
    THEN [visited |-> visited, result |-> result, overflow |-> TRUE]
    ELSE IF module_id \in visited
    THEN [visited |-> visited, result |-> result, overflow |-> FALSE]
    ELSE LET i == FindModule(modules, module_id)
         IN IF i = 0
            THEN [visited |-> visited, result |-> result, overflow |-> FALSE]
            ELSE LET after == VisitDepsLoop(modules, modules[i].depends_on, 1,
                                            visited, result, depth + 1)
                 IN IF after.overflow
                    THEN after
                    ELSE VisitFinish(after, module_id)

get_all_dependencies(modules, module_id) ==
    visit_dependencies(modules, module_id, {}, <<>>, 1)

\* ------------------------------------------------------------------------
\* resolve_dependency_order (core/deps.rs)

\* the first dependency that names no module, in iteration order
UnresolvedDeps(modules) ==
    {<<i, k>> \in (1..Len(modules)) \X (1..MaxDeps + 1) :
        /\ k <= Len(modules[i].depends_on)
        /\ FindModule(modules, modules[i].depends_on[k]) = 0}

\* edges <<dependency, dependent>> in the order the second loop adds them
RECURSIVE EdgeList(_, _)
EdgeList(modules, i) ==
    IF i > Len(modules)
    THEN <<>>
    ELSE [k \in 1..Len(modules[i].depends_on) |->
             <<modules[i].depends_on[k], modules[i].name>>]
         \o EdgeList(modules, i + 1)

RECURSIVE SeqMap2(_)
SeqMap2(edges) ==
    IF edges = <<>> THEN <<>> ELSE <<edges[1][2]>> \o SeqMap2(Tail(edges))

\* graph[dep_id]: the dependents of dep_id, one entry per declared edge
Graph(modules) ==
    [d \in Names(modules) |->
        LET IsEdgeOf(e) == e[1] = d
        IN SeqMap2(SelectSeq(EdgeList(modules, 1), IsEdgeOf))]

InDegree(modules) ==
    [m \in Names(modules) |->
        Len(modules[FindModule(modules, m)].depends_on)]

ZeroDegree(modules) == {m \in Names(modules) : InDegree(modules)[m] = 0}

\* variant: a neighbour is queued when one edge is still left
RECURSIVE ProcessNeighbors_OffByOne(_, _, _)
ProcessNeighbors_OffByOne(neighbors, in_degree, queue) ==
    IF neighbors = <<>>
    THEN [in_degree |-> in_degree, queue |-> queue]
    ELSE LET n == Head(neighbors)
             d == in_degree[n] - 1
         IN ProcessNeighbors_OffByOne(Tail(neighbors),
                                      [in_degree EXCEPT ![n] = d],
                                      IF d = 1 THEN Append(queue, n) ELSE queue)

\* the `for neighbor in &graph[&current]` loop
RECURSIVE ProcessNeighbors(_, _, _)
ProcessNeighbors(neighbors, in_degree, queue) ==
    IF neighbors = <<>>
    THEN [in_degree |-> in_degree, queue |-> queue]
    ELSE LET n == Head(neighbors)
             d == in_degree[n] - 1
         IN ProcessNeighbors(Tail(neighbors),
                             [in_degree EXCEPT ![n] = d],
                             IF d = 0 THEN Append(queue, n) ELSE queue)

\* the `while let Some(current) = queue.pop()` loop
RECURSIVE KahnLoop(_, _, _, _)
KahnLoop(graph, in_degree, queue, result) ==
    IF queue = <<>>
    THEN result
    ELSE LET current == queue[Len(queue)]
             rest == SubSeq(queue, 1, Len(queue) - 1)
             step == ProcessNeighbors(graph[current], in_degree, rest)
         IN KahnLoop(graph, step.in_degree, step.queue, Append(result, current))

\* variant: only an empty result is taken for a cycle
ResolveResult_Empty(result, modules) ==
    IF Len(result) = 0 /\ Len(modules) # 0
    THEN [ok |-> FALSE, err |-> "Circular dependency detected", order |-> <<>>]
    ELSE [ok |-> TRUE, err |-> "", order |-> result]

\* "if result.len() != manifest.modules.len()"
ResolveResult(result, modules) ==
    IF Len(result) # Len(modules)
    THEN [ok |-> FALSE, err |-> "Circular dependency detected", order |-> <<>>]
    ELSE [ok |-> TRUE, err |-> "", order |-> result]

\* queue0 is the order in which the HashMap iteration yields the
\* zero-in-degree identifiers
resolve_dependency_order(modules, queue0) ==
    IF UnresolvedDeps(modules) # {}
    THEN [ok |-> FALSE, err |-> "Dependency not found", order |-> <<>>]
    ELSE ResolveResult(KahnLoop(Graph(modules), InDegree(modules), queue0, <<>>),
                       modules)

\* ------------------------------------------------------------------------
\* Order of env entries in printed scripts (ast.rs, ScriptBlock::pretty_print)

\* ascending order of the env keys that occur in the model
EnvKeyOrder == <<"AR", "CC", "CFLAGS">>

KeyRank(k) == CHOOSE i \in 1..Len(EnvKeyOrder) : EnvKeyOrder[i] = k

\* stable insertion of an env entry into a list sorted by key
RECURSIVE InsertByKey(_, _)
InsertByKey(sorted, e) ==
    IF sorted = <<>>
    THEN <<e>>
    ELSE IF KeyRank(e[1]) < KeyRank(sorted[1][1])
    THEN <<e>> \o sorted
    ELSE <<sorted[1]>> \o InsertByKey(Tail(sorted), e)

\* env_vars.sort_by_key(|(k, _)| k.clone())
RECURSIVE SortEnv(_)
SortEnv(env) ==
    IF env = <<>>
    THEN <<>>
    ELSE InsertByKey(SortEnv(SubSeq(env, 1, Len(env) - 1)), env[Len(env)])

\* ------------------------------------------------------------------------
\* Fingerprints and paths (core/deps.rs)

\* What the derived Hash implementations write into the hasher, in order.
\* A String is written as its bytes followed by the byte 0xff (one token
\* here), an Option as its discriminant followed by the value, a bool as one
\* byte, an enum as its discriminant followed by the variant's fields, and a
\* Vec as its length followed by its elements.
FeedString(s) == <<[str |-> s]>>

FeedOption(o) ==
    IF o = None THEN <<[tag |-> 0]>> ELSE <<[tag |-> 1]>> \o FeedString(o[1])

FeedBool(b) == <<[byte |-> b]>>

\* #[derive(Hash)] of FetchSpec, GitSpec, HttpSpec, LocalSpec
FeedFetchSpec(spec) ==
    IF spec.kind = "Git"
    THEN <<[tag |-> 0]>> \o FeedString(spec.url) \o FeedOption(spec.ref_)
            \o FeedBool(spec.recursive)
    ELSE IF spec.kind = "Http"
    THEN <<[tag |-> 1]>> \o FeedString(spec.url) \o FeedOption(spec.sha256)
    ELSE <<[tag |-> 2]>> \o FeedString(spec.path)

RECURSIVE FeedEnv(_)
FeedEnv(env) ==
    IF env = <<>>
    THEN <<>>
    ELSE FeedString(env[1][1]) \o FeedString(env[1][2]) \o FeedEnv(Tail(env))

RECURSIVE FeedCommands(_)
FeedCommands(commands) ==
    IF commands = <<>>
    THEN <<>>
    ELSE FeedString(commands[1]) \o FeedCommands(Tail(commands))

\* variant: the env entries are written in key order, not in list order
FeedScript_SortedEnv(build) ==
    <<[len |-> Len(build.env)]>> \o FeedEnv(SortEnv(build.env))
        \o <<[len |-> Len(build.commands)]>> \o FeedCommands(build.commands)

\* #[derive(Hash)] of ScriptBlock
FeedScript(build) ==
    <<[len |-> Len(build.env)]>> \o FeedEnv(build.env)
        \o <<[len |-> Len(build.commands)]>> \o FeedCommands(build.commands)

\* DefaultHasher::finish, then SHA-256 of its 8 little-endian bytes, as hex.
\* The digest is represented by the hashed byte stream (no collisions).
Fingerprint(x) == [hashed |-> x]

\* variant: the module name is hashed with the fetch specification
compute_fetch_hash_Named(package) ==
    IF package.fetch = None
    THEN None
    ELSE Some(Fingerprint(FeedString(package.name)
                            \o FeedFetchSpec(package.fetch[1].spec)))

compute_fetch_hash(package) ==
    IF package.fetch = None
    THEN None
    ELSE Some(Fingerprint(FeedFetchSpec(package.fetch[1].spec)))

\* variant: a module without a build block gets the digest of an empty script
compute_build_hash_Default(package) ==
    IF package.build = None
    THEN Some(Fingerprint(<<>>))
    ELSE Some(Fingerprint(FeedScript(package.build[1])))

compute_build_hash(package) ==
    IF package.build = None
    THEN None
    ELSE Some(Fingerprint(FeedScript(package.build[1])))

SourceSubdir(package) ==
    IF package.fetch = None
    THEN "archive"
    ELSE IF package.fetch[1].spec.kind = "Git" THEN "git"
    ELSE IF package.fetch[1].spec.kind = "Http" THEN "http"
    ELSE "archive"

\* sources/<subdir>/<id>-<first 8 hex of the fetch hash, or "no-fetch">
get_source_path(package) ==
    <<SourceSubdir(package), package.name, compute_fetch_hash(package)>>

\* dist/<id>
get_dist_path(package) == package.name

\* cache/http/<id>-<first 8 hex of the fetch hash>
CacheDir(package) == <<package.name, compute_fetch_hash(package)>>

\* ------------------------------------------------------------------------
\* The ledger (lockfile): a map from module identifier to PackageState

EmptyState == [fetch_hash |-> None, build_hash |-> None]

get_module_state(lk, id) == IF id \in DOMAIN lk THEN Some(lk[id]) ELSE None

set_module_state(lk, id, state) ==
    [k \in (DOMAIN lk) \cup {id} |-> IF k = id THEN state ELSE lk[k]]

\* lock.get_module_state(id).cloned().unwrap_or(PackageState{None, None})
StateOrDefault(lk, id) ==
    IF get_module_state(lk, id) = None THEN EmptyState ELSE get_module_state(lk, id)[1]

\* ------------------------------------------------------------------------
\* Manifest text round trip (ast.rs PrettyPrint, parser.rs parse_manifest)

\* a script block as it is read back after being printed
ReprintScript(script) == [script EXCEPT !.env = SortEnv(script.env)]

ReprintModule(m) ==
    [m EXCEPT !.build = IF m.build = None THEN None
                        ELSE Some(ReprintScript(m.build[1]))]

\* save_manifest followed by load_manifest: what is read back
save_manifest(modules) == [i \in 1..Len(modules) |-> ReprintModule(modules[i])]

\* ------------------------------------------------------------------------
\* build_package (core/deps.rs)
\*
\* w is the state of the sprout directory: the manifest file (as it parses),
\* the ledger file, dist/, sources/ and cache/http/.  package is the module
\* the caller holds in memory.

World == [manifest |-> manifest, lock |-> lock, dist |-> dist,
          sources |-> sources, cache |-> cache]

\* what a call of build_package did: its outcome, the identifier its error
\* message names, whether the builder ran and on which dist directory, and the
\* log file the message points to
BuildRes(result, names, invoked, at_invoke, log) ==
    [result |-> result, names |-> names, invoked |-> invoked,
     dist_at_invoke |-> at_invoke, log |-> log]

\* one dependency of the readiness loop: None when it is ready
DepReady(modules, lk, dst, dep) ==
    LET i == FindModule(modules, dep)
    IN IF i = 0
       THEN None
       ELSE IF ~dst[get_dist_path(modules[i])]
       THEN Some("dep_not_built")
       ELSE IF get_module_state(lk, dep) # None
               /\ compute_build_hash(modules[i]) # get_module_state(lk, dep)[1].build_hash
       THEN Some("dep_changed")
       ELSE None

\* for dep in all_deps.iter().take(all_deps.len().saturating_sub(1))
RECURSIVE DepCheckLoop(_, _, _, _, _, _)
DepCheckLoop(modules, lk, dst, all_deps, k, n) ==
    IF k > n
    THEN [result |-> "ready", dep |-> None]
    ELSE LET r == DepReady(modules, lk, dst, all_deps[k])
         IN IF r # None
            THEN [result |-> r[1], dep |-> Some(all_deps[k])]
            ELSE DepCheckLoop(modules, lk, dst, all_deps, k + 1, n)

\* "Check all dependencies are built"
DepCheck(w, lk, package) ==
    IF package.depends_on = <<>>
    THEN [result |-> "ready", dep |-> None]
    ELSE LET closure == get_all_dependencies(w.manifest, package.name)
             n == IF Len(closure.result) = 0 THEN 0 ELSE Len(closure.result) - 1
         IN IF closure.overflow
            THEN [result |-> "stack_overflow", dep |-> None]
            ELSE DepCheckLoop(w.manifest, lk, w.dist, closure.result, 1, n)

\* variant: the rebuild flag is not looked at
UpToDate_IgnoresRebuild(w, lk, package, rebuild) ==
    /\ w.dist[get_dist_path(package)]
    /\ get_module_state(lk, package.name) # None
    /\ compute_build_hash(package) = get_module_state(lk, package.name)[1].build_hash

\* "Check if package is already up-to-date"
UpToDate(w, lk, package, rebuild) ==
    /\ ~rebuild
    /\ w.dist[get_dist_path(package)]
    /\ get_module_state(lk, package.name) # None
    /\ compute_build_hash(package) = get_module_state(lk, package.name)[1].build_hash

\* variant: the dist directory is never removed
CleanDist_Never(dst, package, rebuild) == dst

\* "Clean dist directory only if rebuild flag is set": remove_dir_all
CleanDist(dst, package, rebuild) ==
    IF rebuild /\ dst[get_dist_path(package)]
    THEN [dst EXCEPT ![get_dist_path(package)] = FALSE]
    ELSE dst

\* what the builder finds in dist/<id> after create_dir_all: a directory that
\* did not exist before ("new"), one that was removed and created again
\* ("cleaned"), or the one an earlier build left ("stale")
DistAtInvoke(dst, package, rebuild) ==
    IF ~dst[get_dist_path(package)] THEN "new"
    ELSE IF CleanDist(dst, package, rebuild)[get_dist_path(package)] THEN "stale"
    ELSE "cleaned"

\* the clean-up followed by fs::create_dir_all(&dist_path)
PrepareDist(dst, package, rebuild) ==
    [CleanDist(dst, package, rebuild) EXCEPT ![get_dist_path(package)] = TRUE]

\* variant: the fetch hash is stored as the build hash
RecordBuild_FetchHash(lk, package) ==
    set_module_state(lk, package.name,
        [StateOrDefault(lk, package.name) EXCEPT
            !.build_hash = compute_fetch_hash(package)])

\* "Update lockfile"
RecordBuild(lk, package) ==
    set_module_state(lk, package.name,
        [StateOrDefault(lk, package.name) EXCEPT
            !.build_hash = compute_build_hash(package)])

\* the part of build_package after the up-to-date check
BuildSteps(w, lk, package, rebuild, builder_ok) ==
    LET source_path == get_source_path(package)
        srcs == w.sources \cup {source_path}
        dst == PrepareDist(w.dist, package, rebuild)
        at_invoke == DistAtInvoke(w.dist, package, rebuild)
        log == Some(<<package.name, "build">>)
    IN IF package.fetch # None /\ source_path \notin w.sources
       THEN [w |-> w,
             res |-> BuildRes("source_missing", Some(package.name), FALSE, "n/a", None)]
       ELSE IF package.build # None /\ ~builder_ok
       THEN [w |-> [w EXCEPT !.sources = srcs, !.dist = dst],
             res |-> BuildRes("build_failed", Some(package.name), TRUE, at_invoke, log)]
       ELSE IF package.build # None
       THEN [w |-> [w EXCEPT !.sources = srcs, !.dist = dst,
                             !.lock = RecordBuild(lk, package)],
             res |-> BuildRes("built", None, TRUE, at_invoke, log)]
       ELSE [w |-> [w EXCEPT !.sources = srcs, !.dist = dst,
                             !.lock = RecordBuild(lk, package)],
             res |-> BuildRes("built", None, FALSE, "n/a", None)]

build_package(w, package, dry_run, rebuild, builder_ok) ==
    LET lk == w.lock
        check == DepCheck(w, lk, package)
    IN IF dry_run
       THEN [w |-> w, res |-> BuildRes("would_build", None, FALSE, "n/a", None)]
       ELSE IF check.result # "ready"
       THEN [w |-> w, res |-> BuildRes(check.result, check.dep, FALSE, "n/a", None)]
       ELSE IF UpToDate(w, lk, package, rebuild)
       THEN [w |-> w, res |-> BuildRes("up_to_date", None, FALSE, "n/a", None)]
       ELSE BuildSteps(w, lk, package, rebuild, builder_ok)

\* ------------------------------------------------------------------------
\* fetch_package, fetch_git, fetch_archive (core/deps.rs)
\*
\* fx is what the outside world does during the fetch: net is the outcome of
\* the download ("ok", "refused" before a file is created, "truncated" after),
\* content is the SHA-256 of the file that the download leaves in the cache,
\* ok is the outcome of git clone resp. of the extraction.

FileShas == {"s1"}

FetchOutcomes == [net : {"ok", "refused", "truncated"}, content : FileShas, ok : BOOLEAN]

FetchRes(result, invoked) == [result |-> result, invoked |-> invoked]

\* the source directory is cleaned and re-created before git clone runs
fetch_git(w, package, fx) ==
    [w |-> [w EXCEPT !.sources = w.sources \cup {get_source_path(package)}],
     ok |-> fx.ok,
     err |-> IF fx.ok THEN "" ELSE "git_clone_failed"]

\* "Update manifest with computed SHA256": load_manifest, set, save_manifest
InsertSha(modules, package_id, hash) ==
    LET i == FindModule(modules, package_id)
    IN IF i # 0 /\ modules[i].fetch # None /\ modules[i].fetch[1].spec.kind = "Http"
       THEN save_manifest([modules EXCEPT ![i].fetch[1].spec.sha256 = Some(hash)])
       ELSE modules

fetch_archive(w, package, archive, fx) ==
    LET dir == CacheDir(package)
        cached == dir \in DOMAIN w.cache
        cache1 == IF cached \/ fx.net = "refused"
                  THEN w.cache
                  ELSE [d \in (DOMAIN w.cache) \cup {dir} |->
                           IF d = dir THEN fx.content ELSE w.cache[d]]
        w1 == [w EXCEPT !.cache = cache1]
    IN IF ~cached /\ fx.net # "ok"
       THEN [w |-> w1, ok |-> FALSE, err |-> "download_failed"]
       ELSE IF archive.sha256 # None /\ archive.sha256[1] # cache1[dir]
       THEN [w |-> w1, ok |-> FALSE, err |-> "sha256_mismatch"]
       ELSE LET w2 == [w1 EXCEPT
                         !.manifest = IF archive.sha256 = None
                                      THEN InsertSha(w.manifest, package.name, cache1[dir])
                                      ELSE w.manifest,
                         !.sources = w.sources \cup {get_source_path(package)}]
            IN [w |-> w2, ok |-> fx.ok,
                err |-> IF fx.ok THEN "" ELSE "extract_failed"]

\* variant: the record is built from scratch instead of from the stored one
RecordFetch_Fresh(lk, id, updated_package) ==
    set_module_state(lk, id,
        [EmptyState EXCEPT !.fetch_hash = compute_fetch_hash(updated_package)])

\* "Update lockfile with current fetch hash"
RecordFetch(lk, id, updated_package) ==
    set_module_state(lk, id,
        [StateOrDefault(lk, id) EXCEPT
            !.fetch_hash = compute_fetch_hash(updated_package)])

\* the part of fetch_package after the fetcher returned successfully
FetchCommit(w, package) ==
    LET i == FindModule(w.manifest, package.name)
    IN IF i = 0
       THEN [w |-> w, res |-> FetchRes("not_found_after_fetch", TRUE)]
       ELSE [w |-> [w EXCEPT !.lock = RecordFetch(w.lock, package.name, w.manifest[i])],
             res |-> FetchRes("fetched", TRUE)]

\* variant: the ledger is written although the fetcher failed
FetchAbort_Commits(f, package) ==
    [w |-> FetchCommit(f.w, package).w, res |-> FetchRes(f.err, TRUE)]

\* the fetcher's error is returned before the ledger is loaded
FetchAbort(f, package) == [w |-> f.w, res |-> FetchRes(f.err, TRUE)]

\* variant: the dry_run flag is not looked at
fetch_package_IgnoresDryRun(w, package, dry_run, fx) ==
    IF package.fetch = None
    THEN [w |-> w, res |-> FetchRes("no_fetch_config", FALSE)]
    ELSE IF package.fetch[1].spec.kind \notin {"Git", "Http"}
    THEN [w |-> w, res |-> FetchRes("unsupported_fetch_type", FALSE)]
    ELSE LET spec == package.fetch[1].spec
             f == IF spec.kind = "Git"
                  THEN fetch_git(w, package, fx)
                  ELSE fetch_archive(w, package, spec, fx)
         IN IF ~f.ok
            THEN FetchAbort(f, package)
            ELSE FetchCommit(f.w, package)

fetch_package(w, package, dry_run, fx) ==
    IF package.fetch = None
    THEN [w |-> w, res |-> FetchRes("no_fetch_config", FALSE)]
    ELSE IF dry_run
    THEN [w |-> w, res |-> FetchRes("would_fetch", FALSE)]
    ELSE IF package.fetch[1].spec.kind \notin {"Git", "Http"}
    THEN [w |-> w, res |-> FetchRes("unsupported_fetch_type", FALSE)]
    ELSE LET spec == package.fetch[1].spec
             f == IF spec.kind = "Git"
                  THEN fetch_git(w, package, fx)
                  ELSE fetch_archive(w, package, spec, fx)
         IN IF ~f.ok
            THEN FetchAbort(f, package)
            ELSE FetchCommit(f.w, package)

\* ------------------------------------------------------------------------
\* `modules hash` (cli.rs, ModulesCommand::Hash)

HashModule(lk, module, compute_fetch, compute_build) ==
    LET id == module.name
        fh == compute_fetch_hash(module)
        bh == compute_build_hash(module)
        lk1 == IF compute_fetch /\ fh # None
               THEN set_module_state(lk, id, [StateOrDefault(lk, id) EXCEPT !.fetch_hash = fh])
               ELSE lk
    IN IF compute_build /\ bh # None
       THEN set_module_state(lk1, id, [StateOrDefault(lk1, id) EXCEPT !.build_hash = bh])
       ELSE lk1

RECURSIVE HashLoop(_, _, _, _, _)
HashLoop(lk, modules, k, compute_fetch, compute_build) ==
    IF k > Len(modules)
    THEN lk
    ELSE HashLoop(HashModule(lk, modules[k], compute_fetch, compute_build),
                  modules, k + 1, compute_fetch, compute_build)

\* -i writes the ledger, otherwise the hashes are only printed
hash_command(w, i, fetch, build) ==
    IF i
    THEN [w EXCEPT !.lock = HashLoop(w.lock, w.manifest, 1, fetch \/ ~build, build \/ ~fetch)]
    ELSE w

\* ------------------------------------------------------------------------
\* format_manifest (cli.rs)

\* rename(old, new) of a directory when old exists and new does not
RenameCache(c, old, new) ==
    IF old \in DOMAIN c /\ new \notin DOMAIN c
    THEN [d \in ((DOMAIN c) \ {old}) \cup {new} |-> IF d = new THEN c[old] ELSE c[d]]
    ELSE c

RenameSource(srcs, old, new) ==
    IF old \in srcs /\ new \notin srcs THEN (srcs \ {old}) \cup {new} ELSE srcs

\* one iteration of "Compute and add missing SHA256 hashes for HTTP archives";
\* st = [w, modules, updated]
FormatModule(st, k, in_place) ==
    LET module == st.modules[k]
        old_dir == CacheDir(module)
    IN IF /\ module.fetch # None
          /\ module.fetch[1].spec.kind = "Http"
          /\ module.fetch[1].spec.sha256 = None
          /\ old_dir \in DOMAIN st.w.cache
       THEN LET hash == st.w.cache[old_dir]
                new_module == [module EXCEPT !.fetch[1].spec.sha256 = Some(hash)]
                new_dir == CacheDir(new_module)
            IN [w |-> IF in_place
                      THEN [st.w EXCEPT
                              !.cache = RenameCache(st.w.cache, old_dir, new_dir),
                              !.sources = RenameSource(st.w.sources,
                                              get_source_path(module),
                                              get_source_path(new_module))]
                      ELSE st.w,
                modules |-> [st.modules EXCEPT ![k] = new_module],
                updated |-> Append(st.updated, module.name)]
       ELSE st

RECURSIVE FormatLoop(_, _, _)
FormatLoop(st, k, in_place) ==
    IF k > Len(st.modules)
    THEN st
    ELSE FormatLoop(FormatModule(st, k, in_place), k + 1, in_place)

\* "Update lockfile with new fetch hashes for updated modules"
RECURSIVE FormatLock(_, _, _, _)
FormatLock(lk, modules, updated, k) ==
    IF k > Len(updated)
    THEN lk
    ELSE LET i == FindModule(modules, updated[k])
         IN FormatLock(IF i = 0 THEN lk
                       ELSE RecordFetch(lk, updated[k], modules[i]),
                       modules, updated, k + 1)

format_manifest(w, in_place) ==
    LET st == FormatLoop([w |-> w, modules |-> w.manifest, updated |-> <<>>], 1, in_place)
    IN IF in_place
       THEN [st.w EXCEPT
               !.manifest = save_manifest(st.modules),
               !.lock = IF st.updated # <<>>
                        THEN FormatLock(st.w.lock, st.modules, st.updated, 1)
                        ELSE st.w.lock]
       ELSE w

\* ------------------------------------------------------------------------
\* Manifests of the model

Module(name, deps, fetch, build) ==
    [name |-> name, depends_on |-> deps, fetch |-> fetch, build |-> build]

Fetch(spec) == Some([spec |-> spec, output |-> None])

GitFetch == Fetch([kind |-> "Git", url |-> "https://h/r.git", ref_ |-> None, recursive |-> FALSE])

HttpFetch(sha256) == Fetch([kind |-> "Http", url |-> "https://h/f.tar.gz", sha256 |-> sha256])

LocalFetch == Fetch([kind |-> "Local", path |-> "/p"])

\* env declared in an order that differs from the key order
ScriptA == [env |-> << <<"CC", "gcc">>, <<"AR", "ar">> >>, commands |-> <<"make">>]

ScriptB == [env |-> <<>>, commands |-> <<"make install">>]

BuildChoices == {None, Some(ScriptA), Some(ScriptB)}

\* the chain c -> b -> a; a is fetched (http without checksum, http with a
\* checksum that the served file does not have, git, or local), b and c have
\* no fetch block
BuildManifests ==
    {<<Module("a", <<>>, afetch, Some(ScriptA)),
       Module("b", <<"a">>, None, Some(ScriptB)),
       Module("c", <<"b">>, None, Some(ScriptB))>> :
        afetch \in {HttpFetch(None), HttpFetch(Some("s0")), GitFetch, LocalFetch}}

\* b -> a, where a is fetched over http (with or without a checksum) or git
LedgerManifests ==
    {<<Module("a", <<>>, afetch, Some(ScriptA)),
       Module("b", <<"a">>, None, Some(ScriptB))>> :
        afetch \in {HttpFetch(None), HttpFetch(Some("s0")), GitFetch}}

\* the validated manifest with the modules S and the dependency lists deps,
\* sorted by identifier, without fetch and build blocks
SortedNames(S) == SelectSeq(IdOrder, LAMBDA x : x \in S)

GraphManifest(S, deps) ==
    [i \in 1..Cardinality(S) |->
        Module(SortedNames(S)[i], deps[SortedNames(S)[i]], None, None)]

\* ------------------------------------------------------------------------
\* State

Apply(w) ==
    /\ manifest' = w.manifest
    /\ lock' = w.lock
    /\ dist' = w.dist
    /\ sources' = w.sources
    /\ cache' = w.cache

InitWorld ==
    /\ lock = <<>>
    /\ dist = [id \in Ids |-> FALSE]
    /\ sources = {}
    /\ cache = <<>>
    /\ edits = 0
    /\ last = [op |-> "init"]

Init ==
    /\ manifest \in BuildManifests
    /\ InitWorld

InitLedger ==
    /\ manifest \in LedgerManifests
    /\ InitWorld

InitGraph ==
    /\ \E S \in SUBSET Ids : \E deps \in [S -> SeqsUpTo(S, MaxDeps)] :
          manifest = GraphManifest(S, deps)
    /\ InitWorld

\* ------------------------------------------------------------------------
\* Commands (cli.rs, handle_modules_command)

\* `modules fetch <id>`
CmdFetch(id, dry_run, fx) ==
    LET i == FindModule(manifest, id)
        out == fetch_package(World, manifest[i], dry_run, fx)
    IN /\ i # 0
       /\ Apply(out.w)
       /\ last' = [op |-> "fetch", module |-> id, dry_run |-> dry_run,
                   res |-> out.res]
       /\ UNCHANGED edits

\* `modules build <id>`
CmdBuild(id, dry_run, rebuild, builder_ok) ==
    LET i == FindModule(manifest, id)
        out == build_package(World, manifest[i], dry_run, rebuild, builder_ok)
    IN /\ i # 0
       /\ Apply(out.w)
       /\ last' = [op |-> "build", module |-> id, dry_run |-> dry_run,
                   rebuild |-> rebuild, res |-> out.res]
       /\ UNCHANGED edits

\* `modules hash [-i] [--fetch] [--build]`
CmdHash(i, fetch, build) ==
    /\ Apply(hash_command(World, i, fetch, build))
    /\ last' = [op |-> "hash", i |-> i]
    /\ UNCHANGED edits

\* `format [-i]`
CmdFormat(in_place) ==
    /\ Apply(format_manifest(World, in_place))
    /\ last' = [op |-> "format", i |-> in_place]
    /\ UNCHANGED edits

\* the user edits the build block of a module in manifest.sprout
EditBuild(id, build) ==
    LET i == FindModule(manifest, id)
    IN /\ i # 0
       /\ edits < MaxEdits
       /\ manifest[i].build # build
       /\ manifest' = [manifest EXCEPT ![i].build = build]
       /\ edits' = edits + 1
       /\ last' = [op |-> "edit", module |-> id]
       /\ UNCHANGED <<lock, dist, sources, cache>>

Next ==
    \/ \E id \in Ids, dry_run \in BOOLEAN, fx \in FetchOutcomes :
          CmdFetch(id, dry_run, fx)
    \/ \E id \in Ids, dry_run \in BOOLEAN, rebuild \in BOOLEAN, builder_ok \in BOOLEAN :
          CmdBuild(id, dry_run, rebuild, builder_ok)
    \/ \E id \in Ids, build \in BuildChoices : EditBuild(id, build)

Spec == Init /\ [][Next]_vars

\* fetch, build and edit together with the other commands that write the
\* ledger, on a two-module manifest
NextLedger ==
    \/ Next
    \/ \E i \in BOOLEAN, fetch \in BOOLEAN, build \in BOOLEAN : CmdHash(i, fetch, build)
    \/ \E in_place \in BOOLEAN : CmdFormat(in_place)

SpecLedger == InitLedger /\ [][NextLedger]_vars

\* ------------------------------------------------------------------------
\* The resolver applied to every small validated manifest

QueryResolve(queue0) ==
    /\ last' = [op |-> "resolve", res |-> resolve_dependency_order(manifest, queue0)]
    /\ UNCHANGED <<manifest, lock, dist, sources, cache, edits>>

QueryClosure(id) ==
    /\ last' = [op |-> "closure", module |-> id,
                res |-> get_all_dependencies(manifest, id)]
    /\ UNCHANGED <<manifest, lock, dist, sources, cache, edits>>

NextGraph ==
    \/ \E queue0 \in Perms(ZeroDegree(manifest)) : QueryResolve(queue0)
    \/ \E id \in Ids : QueryClosure(id)

SpecGraph == InitGraph /\ [][NextGraph]_vars

\* ------------------------------------------------------------------------
\* Properties of the resolver (checked under SpecGraph)

DirectDeps(modules, id) ==
    IF FindModule(modules, id) = 0
    THEN {}
    ELSE Range(modules[FindModule(modules, id)].depends_on)

RECURSIVE DepClosure(_, _)
DepClosure(modules, S) ==
    LET T == S \cup UNION {DirectDeps(modules, x) : x \in S}
    IN IF T = S THEN S ELSE DepClosure(modules, T)

\* the modules reachable from id over one or more depends_on edges
TransDeps(modules, id) == DepClosure(modules, DirectDeps(modules, id))

Acyclic(modules) == \A id \in Names(modules) : id \notin TransDeps(modules, id)

Pos(seq, x) == CHOOSE i \in 1..Len(seq) : seq[i] = x

NoDuplicates(seq) == Cardinality(Range(seq)) = Len(seq)

\* every element of seq comes after all of its own dependencies
DepsFirst(modules, seq) ==
    \A x \in Range(seq) : \A d \in DirectDeps(modules, x) :
        d \in Range(seq) /\ Pos(seq, d) < Pos(seq, x)

\* C5: on an acyclic validated manifest resolve_dependency_order succeeds and
\* returns every module exactly once, each dependency before its dependents;
\* the manifest a, b -> a gives [a, b].
C5_TopologicalOrder ==
    (last.op = "resolve" /\ Acyclic(manifest)) =>
        /\ last.res.ok
        /\ Range(last.res.order) = Names(manifest)
        /\ Len(last.res.order) = Len(manifest)
        /\ DepsFirst(manifest, last.res.order)
        /\ (manifest = <<Module("a", <<>>, None, None), Module("b", <<"a">>, None, None)>>
               => last.res.order = <<"a", "b">>)

\* an acyclic manifest of three modules where one module has two different
\* dependencies and another one has one, resolved
C5_Witness ==
    /\ last.op = "resolve"
    /\ Acyclic(manifest)
    /\ Len(manifest) = 3
    /\ \E i \in 1..3 : Cardinality(Range(manifest[i].depends_on)) = 2
    /\ \E i \in 1..3 : Cardinality(Range(manifest[i].depends_on)) = 1
    /\ last.res.ok

\* C6: on a manifest whose dependency graph has a cycle (a self-dependency
\* included) resolve_dependency_order returns the circular-dependency error
\* and no order.
C6_CycleError ==
    (last.op = "resolve" /\ ~Acyclic(manifest)) =>
        /\ ~last.res.ok
        /\ last.res.err = "Circular dependency detected"
        /\ last.res.order = <<>>

\* a manifest with a module outside the cycle (which Kahn's loop does emit)
\* and a self-dependent module, resolved
C6_Witness ==
    /\ last.op = "resolve"
    /\ ~Acyclic(manifest)
    /\ \E i \in 1..Len(manifest) : manifest[i].name \in Range(manifest[i].depends_on)
    /\ ZeroDegree(manifest) # {}
    /\ ~last.res.ok

\* C7: on an acyclic validated manifest get_all_dependencies(module) returns
\* exactly the transitive dependencies of the module and the module itself,
\* each once, every element after its own dependencies, the module last.
C7_Closure ==
    (last.op = "closure" /\ Acyclic(manifest) /\ last.module \in Names(manifest)) =>
        /\ ~last.res.overflow
        /\ Range(last.res.result) = TransDeps(manifest, last.module) \cup {last.module}
        /\ NoDuplicates(last.res.result)
        /\ DepsFirst(manifest, last.res.result)
        /\ last.res.result[Len(last.res.result)] = last.module

\* the closure of a module that reaches one dependency over two paths
C7_Witness ==
    /\ last.op = "closure"
    /\ Acyclic(manifest)
    /\ last.module \in Names(manifest)
    /\ \E d \in DirectDeps(manifest, last.module) :
          \E e \in DirectDeps(manifest, last.module) \ {d} :
              d \in DirectDeps(manifest, e)
    /\ Len(last.res.result) = 3

\* C8: get_all_dependencies returns a result on every manifest, cyclic ones
\* included: the traversal never exhausts the call stack.
C8_ClosureTerminates ==
    last.op = "closure" => ~last.res.overflow

\* ------------------------------------------------------------------------
\* Properties of build_package and fetch_package (checked under Spec)

ModuleOf(modules, id) == modules[FindModule(modules, id)]

\* the build fingerprint the ledger holds for id; none when it has no record
RecordedBuildHash(lk, id) == IF id \in DOMAIN lk THEN lk[id].build_hash ELSE None

\* a dependency that is not ready in the current state: no dist output, or
\* its current build fingerprint is not the one recorded in the ledger
Unready(d) ==
    \/ ~dist[d]
    \/ compute_build_hash(ModuleOf(manifest, d)) # RecordedBuildHash(lock, d)

\* C1: a (non dry-run) build_package invokes the builder only if every
\* transitive dependency has a dist output and a current build fingerprint
\* equal to the recorded one; otherwise it fails with an error naming an
\* unready dependency, without invoking the builder or changing the ledger.
C1_BuilderOnlyWhenDepsReady ==
    [][(last'.op = "build" /\ ~last'.dry_run) =>
          LET unready == {d \in TransDeps(manifest, last'.module) : Unready(d)}
          IN unready # {} =>
                /\ ~last'.res.invoked
                /\ last'.res.result \in {"dep_not_built", "dep_changed"}
                /\ last'.res.names # None
                /\ last'.res.names[1] \in unready
                /\ lock' = lock]_vars

DepCheckPassed(res) ==
    res.result \notin {"would_build", "dep_not_built", "dep_changed", "stack_overflow"}

\* C2: in a build_package call whose dependency check passed, if the module's
\* dist output exists, rebuild is not forced and the ledger record of the
\* module holds its current build fingerprint, the call succeeds without
\* invoking the builder and leaves dist and ledger unchanged; in every other
\* case it goes on to the build steps.
C2_UpToDateSkip ==
    [][(last'.op = "build" /\ DepCheckPassed(last'.res)) =>
          LET id == last'.module
          IN IF /\ dist[id]
                /\ ~last'.rebuild
                /\ id \in DOMAIN lock
                /\ lock[id].build_hash = compute_build_hash(ModuleOf(manifest, id))
             THEN /\ last'.res.result = "up_to_date"
                  /\ ~last'.res.invoked
                  /\ dist' = dist
                  /\ lock' = lock
             ELSE last'.res.result \in {"source_missing", "build_failed", "built"}]_vars

\* a module with a built dependency was skipped as up-to-date
C2_Witness ==
    /\ last.op = "build"
    /\ last.res.result = "up_to_date"
    /\ last.module = "b"

\* C3: after a successful build the ledger on disk holds the module's current
\* build fingerprint; after a failed build the ledger is exactly as before and
\* the error names the module and the log file.
C3_LedgerAfterBuild ==
    [][last'.op = "build" =>
          LET id == last'.module
          IN /\ last'.res.result = "built" =>
                  /\ id \in DOMAIN lock'
                  /\ lock'[id].build_hash = compute_build_hash(ModuleOf(manifest, id))
             /\ last'.res.result = "build_failed" =>
                  /\ lock' = lock
                  /\ last'.res.names = Some(id)
                  /\ last'.res.log = Some(<<id, "build">>)]_vars

\* the build of c failed while the ledger holds the builds of a and b
C3_Witness ==
    /\ last.op = "build"
    /\ last.module = "c"
    /\ last.res.result = "build_failed"
    /\ RecordedBuildHash(lock, "a") # None
    /\ RecordedBuildHash(lock, "b") # None
    /\ "c" \notin DOMAIN lock

\* C9 as stated: whenever the builder is invoked because rebuild is forced or
\* because the recorded build fingerprint differs from the current one, it
\* does not run on a dist directory left by an earlier build.
C9_DistDiscarded ==
    [][(/\ last'.op = "build"
        /\ last'.res.invoked
        /\ \/ last'.rebuild
           \/ /\ last'.module \in DOMAIN lock
              /\ lock[last'.module].build_hash
                    # compute_build_hash(ModuleOf(manifest, last'.module)))
          => last'.res.dist_at_invoke # "stale"]_vars

\* C9 amended: with rebuild forced an existing dist directory is removed
\* before the builder runs; without it (fingerprint mismatch, or no record) an
\* existing dist directory is kept and the builder runs on it.
C9_DistDiscardedOnRebuildOnly ==
    [][(last'.op = "build" /\ last'.res.invoked) =>
          /\ (last'.rebuild /\ dist[last'.module]) => last'.res.dist_at_invoke = "cleaned"
          /\ (~last'.rebuild /\ dist[last'.module]) => last'.res.dist_at_invoke = "stale"
          /\ ~dist[last'.module] => last'.res.dist_at_invoke = "new"]_vars

\* a forced rebuild ran the builder after removing the old dist directory
C9_Witness ==
    /\ last.op = "build"
    /\ last.rebuild
    /\ last.res.invoked
    /\ last.res.dist_at_invoke = "cleaned"

\* C10: fetch_package leaves the build fingerprint of the fetched module and
\* the records of all other modules as they are, and changes no record at all
\* unless it succeeds.
C10_FetchFrame ==
    [][last'.op = "fetch" =>
          /\ \A id \in Ids \ {last'.module} :
                get_module_state(lock', id) = get_module_state(lock, id)
          /\ RecordedBuildHash(lock', last'.module) = RecordedBuildHash(lock, last'.module)
          /\ last'.res.result # "fetched" => lock' = lock]_vars

\* a was fetched again after a and b had been built
C10_Witness ==
    /\ last.op = "fetch"
    /\ last.res.result = "fetched"
    /\ RecordedBuildHash(lock, "a") # None
    /\ RecordedBuildHash(lock, "b") # None

\* ------------------------------------------------------------------------
\* Properties of the ledger under all commands (checked under SpecLedger)

\* the record of id is created, or one of its fingerprints is changed
FingerprintWritten(id) ==
    /\ id \in DOMAIN lock'
    /\ id \notin DOMAIN lock \/ lock'[id] # lock[id]

SuccessfulFetchOrBuild(id) ==
    /\ last'.module = id
    /\ \/ last'.op = "fetch" /\ last'.res.result = "fetched"
       \/ last'.op = "build" /\ last'.res.result = "built"

\* C4 as stated: a ledger record is created or changed only by a successful
\* fetch or a successful build of its module.
C4_OnlyFetchOrBuildWrite ==
    [][\A id \in Ids : FingerprintWritten(id) =>
          /\ last'.op \in {"fetch", "build"}
          /\ SuccessfulFetchOrBuild(id)]_vars

\* C4 amended: a ledger record is created or changed only by a successful
\* fetch or build of its module, by `modules hash -i` (which stores current
\* fingerprints of the manifest), or by `format -i` (which stores the fetch
\* fingerprint of an http module whose sha256 it inserted).
C4_LedgerWriters ==
    [][\A id \in Ids : FingerprintWritten(id) =>
          \/ /\ last'.op \in {"fetch", "build"}
             /\ SuccessfulFetchOrBuild(id)
          \/ /\ last'.op = "hash"
             /\ last'.i
             /\ lock'[id].fetch_hash \in
                   {StateOrDefault(lock, id).fetch_hash,
                    compute_fetch_hash(ModuleOf(manifest, id))}
             /\ lock'[id].build_hash \in
                   {StateOrDefault(lock, id).build_hash,
                    compute_build_hash(ModuleOf(manifest, id))}
          \/ /\ last'.op = "format"
             /\ last'.i
             /\ ModuleOf(manifest, id).fetch # None
             /\ ModuleOf(manifest, id).fetch[1].spec.kind = "Http"
             /\ ModuleOf(manifest, id).fetch[1].spec.sha256 = None
             /\ ModuleOf(manifest', id).fetch[1].spec.sha256 # None
             /\ lock'[id].fetch_hash = compute_fetch_hash(ModuleOf(manifest', id))
             /\ lock'[id].build_hash = StateOrDefault(lock, id).build_hash]_vars

\* `format -i` stored a fetch fingerprint for a although no fetch of a ever
\* got as far as creating its source directory
C4_Witness ==
    /\ last.op = "format"
    /\ last.i
    /\ "a" \in DOMAIN lock
    /\ lock["a"].fetch_hash # None
    /\ sources = {}

\* ------------------------------------------------------------------------
\* The fingerprint functions applied to pairs of separately built modules

FetchWithOutput(spec, output) == Some([spec |-> spec, output |-> output])

\* fetch blocks that differ from the first one in exactly one field, or in
\* the kind only
HashFetchChoices ==
    {None,
     Fetch([kind |-> "Git", url |-> "u1", ref_ |-> None, recursive |-> FALSE]),
     Fetch([kind |-> "Git", url |-> "u2", ref_ |-> None, recursive |-> FALSE]),
     Fetch([kind |-> "Git", url |-> "u1", ref_ |-> Some("v1"), recursive |-> FALSE]),
     Fetch([kind |-> "Git", url |-> "u1", ref_ |-> Some("v2"), recursive |-> FALSE]),
     Fetch([kind |-> "Git", url |-> "u1", ref_ |-> None, recursive |-> TRUE]),
     Fetch([kind |-> "Http", url |-> "u1", sha256 |-> None]),
     Fetch([kind |-> "Http", url |-> "u2", sha256 |-> None]),
     Fetch([kind |-> "Http", url |-> "u1", sha256 |-> Some("v1")]),
     Fetch([kind |-> "Http", url |-> "u1", sha256 |-> Some("v2")]),
     Fetch([kind |-> "Local", path |-> "u1"]),
     Fetch([kind |-> "Local", path |-> "u2"]),
     FetchWithOutput([kind |-> "Http", url |-> "u1", sha256 |-> None], Some("f.bin")),
     FetchWithOutput([kind |-> "Http", url |-> "u1", sha256 |-> None], Some("g.bin"))}

\* build scripts that differ in one env key, one env value, one command, the
\* order of the env entries, the order of the commands, or in where the same
\* strings are placed
HashScriptChoices ==
    {None,
     Some([env |-> << <<"CC", "gcc">>, <<"CFLAGS", "-O2">> >>, commands |-> <<"make">>]),
     Some([env |-> << <<"CFLAGS", "-O2">>, <<"CC", "gcc">> >>, commands |-> <<"make">>]),
     Some([env |-> << <<"CC", "clang">>, <<"CFLAGS", "-O2">> >>, commands |-> <<"make">>]),
     Some([env |-> << <<"AR", "gcc">>, <<"CFLAGS", "-O2">> >>, commands |-> <<"make">>]),
     Some([env |-> << <<"CC", "gcc">>, <<"CFLAGS", "-O2">> >>, commands |-> <<"cmake">>]),
     Some([env |-> << <<"CC", "gcc">> >>, commands |-> <<"make", "cmake">>]),
     Some([env |-> << <<"CC", "gcc">> >>, commands |-> <<"cmake", "make">>]),
     Some([env |-> << <<"CC", "gcc">> >>, commands |-> <<>>]),
     Some([env |-> <<>>, commands |-> <<"CC", "gcc">>]),
     Some([env |-> <<>>, commands |-> <<>>])}

HashModules(names) ==
    {Module(name, deps, fetch, build) :
        name \in names, deps \in {<<>>},
        fetch \in HashFetchChoices, build \in HashScriptChoices}

InitHash ==
    /\ \E m1 \in HashModules({"a"}), m2 \in HashModules({"a", "b"}) :
          manifest = <<m1, m2>>
    /\ InitWorld

\* both fingerprints of both modules are computed
QueryHash ==
    /\ last' = [op |-> "fingerprints",
                fetch |-> <<compute_fetch_hash(manifest[1]),
                            compute_fetch_hash(manifest[2])>>,
                build |-> <<compute_build_hash(manifest[1]),
                            compute_build_hash(manifest[2])>>]
    /\ UNCHANGED <<manifest, lock, dist, sources, cache, edits>>

NextHash == QueryHash

SpecHash == InitHash /\ [][NextHash]_vars

\* ------------------------------------------------------------------------
\* Properties of the fingerprints (checked under SpecHash)

\* C13: two separately constructed modules with equal fetch specifications
\* get the same fetch fingerprint, and two with equal build scripts (same env
\* entries and commands in the same order) get the same build fingerprint,
\* whatever their names and other fields are.
C13_StructuralFingerprint ==
    last.op = "fingerprints" =>
        /\ ((/\ manifest[1].fetch # None
             /\ manifest[2].fetch # None
             /\ manifest[1].fetch[1].spec = manifest[2].fetch[1].spec)
               => last.fetch[1] = last.fetch[2])
        /\ ((/\ manifest[1].build # None
             /\ manifest[1].build = manifest[2].build)
               => last.build[1] = last.build[2])

\* two modules that differ in name and build script have the same fetch
\* specification and got the same fetch fingerprint
C13_Witness ==
    /\ last.op = "fingerprints"
    /\ manifest[1].name # manifest[2].name
    /\ manifest[1].build # manifest[2].build
    /\ manifest[1].fetch # None
    /\ manifest[1].fetch = manifest[2].fetch
    /\ last.fetch[1] = last.fetch[2]
    /\ last.fetch[1] # None

\* C14: two build scripts that differ in an env key, an env value, a command
\* line, or in the order of their env entries get different build
\* fingerprints.
C14_BuildHashSensitive ==
    last.op = "fingerprints" =>
        ((/\ manifest[1].build # None
          /\ manifest[2].build # None
          /\ manifest[1].build # manifest[2].build)
            => last.build[1] # last.build[2])

\* the scripts [(CC,gcc),(CFLAGS,-O2)] and [(CFLAGS,-O2),(CC,gcc)] with the
\* same commands were fingerprinted
C14_Witness ==
    /\ last.op = "fingerprints"
    /\ manifest[1].build # None
    /\ manifest[2].build # None
    /\ manifest[1].build[1].env = << <<"CC", "gcc">>, <<"CFLAGS", "-O2">> >>
    /\ manifest[2].build[1].env = << <<"CFLAGS", "-O2">>, <<"CC", "gcc">> >>
    /\ manifest[1].build[1].commands = manifest[2].build[1].commands
    /\ last.build[1] # last.build[2]

\* C15: two fetch blocks that differ in any field (kind, url, ref, recursive,
\* sha256, path, or the output file name) get different fetch fingerprints.
C15_FetchHashCoversAllFields ==
    last.op = "fingerprints" =>
        ((/\ manifest[1].fetch # None
          /\ manifest[2].fetch # None
          /\ manifest[1].fetch # manifest[2].fetch)
            => last.fetch[1] # last.fetch[2])

\* ------------------------------------------------------------------------
\* Batch commands (cli.rs): `modules build --all`, `modules install --all`,
\* `modules install --with-deps <ids>`
\*
\* opt holds the flags of the command and what the fetcher and the builder
\* do during the batch: the fetch of the modules in fetch_fails and the build
\* script of the modules in build_fails fail.

FetchOk(res) == res.result \in {"fetched", "would_fetch"}

BuildOk(res) == res.result \in {"built", "up_to_date", "would_build"}

BatchFx(opt, id) ==
    [net |-> IF id \in opt.fetch_fails THEN "refused" ELSE "ok",
     content |-> "s1",
     ok |-> id \notin opt.fetch_fails]

Attempt(id, step, res) == [module |-> id, step |-> step, res |-> res]

\* what one package of the loop did: the world after it and its log lines
Logged(w, log) == [w |-> w, log |-> log]

BuildLogged(package, b) ==
    Logged(b.w, <<Attempt(package.name, "build", b.res)>>)

\* body of `for package in ordered_modules` of Build: the error is logged
BuildOne(w, package, opt) ==
    BuildLogged(package,
                build_package(w, package, opt.dry_run, opt.rebuild,
                              package.name \notin opt.build_fails))

LogBefore(fetched, one) == Logged(one.w, fetched \o one.log)

\* the rest of the body of the loop of Install once the fetch returned f:
\* `continue` if the fetch failed, else build
AfterFetch(w, package, opt, f) ==
    IF package.fetch # None /\ ~FetchOk(f.res)
    THEN Logged(f.w, <<Attempt(package.name, "fetch", f.res)>>)
    ELSE LogBefore(IF package.fetch # None
                   THEN <<Attempt(package.name, "fetch", f.res)>>
                   ELSE <<>>,
                   BuildOne(IF package.fetch # None THEN f.w ELSE w,
                            package, opt))

\* body of the loop of Install: fetch if there is a fetch block, then the
\* rest
InstallOne(w, package, opt) ==
    AfterFetch(w, package, opt,
               fetch_package(w, package, opt.dry_run,
                             BatchFx(opt, package.name)))

\* variant: the first failing module ends the loop
NextPackage_AbortOnError(one, k, n) ==
    IF \E i \in 1..Len(one.log) :
          ~FetchOk(one.log[i].res) /\ ~BuildOk(one.log[i].res)
    THEN n + 1
    ELSE k + 1

\* the loop goes on with the next package whatever the outcome was
NextPackage(one, k, n) == k + 1

\* the loop variables: the world, the log so far, the index of the package
LoopAt(w, log, k) == [w |-> w, log |-> log, k |-> k]

\* the loop variables after the body returned one for package k of n
Advance(at, one, n) ==
    LoopAt(one.w, at.log \o one.log, NextPackage(one, at.k, n))

RECURSIVE BatchLoop(_, _, _)
BatchLoop(at, packages, opt) ==
    IF at.k > Len(packages)
    THEN Logged(at.w, at.log)
    ELSE BatchLoop(Advance(at,
                           IF opt.install
                           THEN InstallOne(at.w, packages[at.k], opt)
                           ELSE BuildOne(at.w, packages[at.k], opt),
                           Len(packages)),
                   packages, opt)

\* the modules of the manifest loaded by the command, in the given order
PackagesOf(modules, order) ==
    [i \in 1..Len(order) |-> modules[FindModule(modules, order[i])]]

BatchRes(ok, err, order, log) ==
    [ok |-> ok, err |-> err, order |-> order, log |-> log]

\* the command after its loop ran over the packages
Ran(order, run) == [w |-> run.w, res |-> BatchRes(TRUE, "", order, run.log)]

\* the command once the order r is resolved: the error of r ends it
BatchResolved(w, r, opt) ==
    IF ~r.ok
    THEN [w |-> w, res |-> BatchRes(FALSE, r.err, <<>>, <<>>)]
    ELSE Ran(r.order,
             BatchLoop(LoopAt(w, <<>>, 1), PackagesOf(w.manifest, r.order),
                       opt))

\* Build { all: true } and Install { all: true }
batch_all(w, queue0, opt) ==
    BatchResolved(w, resolve_dependency_order(w.manifest, queue0), opt)

\* "Collect all packages and their dependencies"
CollectWithDeps(modules, requested) ==
    UNION {Range(get_all_dependencies(modules, id).result) : id \in requested}

\* variant: only the requested packages are kept
PackagesToInstall_RequestedOnly(order, all_packages, requested) ==
    SelectSeq(order, LAMBDA id : id \in requested)

\* ordered_modules.into_iter().filter(|p| all_packages.contains(&p.id()))
PackagesToInstall(order, all_packages, requested) ==
    SelectSeq(order, LAMBDA id : id \in all_packages)

\* the command once all_packages is collected and the order r is resolved
InstallResolved(w, r, all_packages, requested, opt) ==
    IF ~r.ok
    THEN [w |-> w, res |-> BatchRes(FALSE, r.err, <<>>, <<>>)]
    ELSE Ran(r.order,
             BatchLoop(LoopAt(w, <<>>, 1),
                       PackagesOf(w.manifest,
                                  PackagesToInstall(r.order, all_packages,
                                                    requested)),
                       opt))

\* Install { with_deps: true, packages }
install_with_deps(w, requested, queue0, opt) ==
    IF \E id \in requested : get_all_dependencies(w.manifest, id).overflow
    THEN [w |-> w, res |-> BatchRes(FALSE, "stack_overflow", <<>>, <<>>)]
    ELSE InstallResolved(w, resolve_dependency_order(w.manifest, queue0),
                         CollectWithDeps(w.manifest, requested), requested,
                         opt)

\* a (fetched), b depending on a, and c (fetched) independent of both: two
\* modules are ready at the start of the topological sort
BatchManifests ==
    {<<Module("a", <<>>, afetch, Some(ScriptA)),
       Module("b", <<"a">>, None, Some(ScriptB)),
       Module("c", <<>>, GitFetch, Some(ScriptB))>> :
        afetch \in {HttpFetch(None), GitFetch}}

\* rebuild may be forced; the fetch of a, and the build of a or of b, may fail
BatchOptions(install) ==
    [install : {install}, dry_run : {FALSE}, rebuild : BOOLEAN,
     fetch_fails : IF install THEN {{}, {"a"}} ELSE {{}},
     build_fails : {{}, {"a"}, {"b"}}]

BatchRequests == {{"b"}, {"c"}, {"b", "c"}}

InitBatch ==
    /\ manifest \in BatchManifests
    /\ InitWorld

\* number of batch commands run so far
BatchRound == IF last.op = "init" THEN 0 ELSE last.round

CmdBuildAll(queue0, opt) ==
    /\ BatchRound < MaxBatches
    /\ \E out \in {batch_all(World, queue0, opt)} :
          /\ Apply(out.w)
          /\ last' = [op |-> "build_all", round |-> BatchRound + 1,
                      manifest |-> manifest, opt |-> opt, res |-> out.res]
          /\ UNCHANGED edits

CmdInstallAll(queue0, opt) ==
    /\ BatchRound < MaxBatches
    /\ \E out \in {batch_all(World, queue0, opt)} :
          /\ Apply(out.w)
          /\ last' = [op |-> "install_all", round |-> BatchRound + 1,
                      manifest |-> manifest, opt |-> opt, res |-> out.res]
          /\ UNCHANGED edits

CmdInstallWithDeps(requested, queue0, opt) ==
    /\ BatchRound < MaxBatches
    /\ \E out \in {install_with_deps(World, requested, queue0, opt)} :
          /\ Apply(out.w)
          /\ last' = [op |-> "install_with_deps", round |-> BatchRound + 1,
                      manifest |-> manifest, opt |-> opt,
                      requested |-> requested, res |-> out.res]
          /\ UNCHANGED edits

NextBatch ==
    \/ \E queue0 \in Perms(ZeroDegree(manifest)), opt \in BatchOptions(FALSE) :
          CmdBuildAll(queue0, opt)
    \/ \E queue0 \in Perms(ZeroDegree(manifest)), opt \in BatchOptions(TRUE) :
          CmdInstallAll(queue0, opt)
    \/ \E requested \in BatchRequests,
          queue0 \in Perms(ZeroDegree(manifest)), opt \in BatchOptions(TRUE) :
          CmdInstallWithDeps(requested, queue0, opt)

SpecBatch == InitBatch /\ [][NextBatch]_vars

\* ------------------------------------------------------------------------
\* Properties of the batch commands

ModulesOfLog(log) == [i \in 1..Len(log) |-> log[i].module]

\* seq without the elements that repeat their predecessor
Collapse(seq) ==
    LET keep == {i \in 1..Len(seq) : i = 1 \/ seq[i] # seq[i - 1]}
        RECURSIVE Pick(_)
        Pick(i) == IF i > Len(seq) THEN <<>>
                   ELSE IF i \in keep THEN <<seq[i]>> \o Pick(i + 1)
                   ELSE Pick(i + 1)
    IN Pick(1)

AttemptFailed(at) ==
    IF at.step = "fetch" THEN ~FetchOk(at.res) ELSE ~BuildOk(at.res)

StepsOf(log, id) ==
    LET idx == {i \in 1..Len(log) : log[i].module = id}
        RECURSIVE Pick(_)
        Pick(i) == IF i > Len(log) THEN <<>>
                   ELSE IF i \in idx THEN <<log[i]>> \o Pick(i + 1)
                   ELSE Pick(i + 1)
    IN Pick(1)

\* what the loop body leaves in the log for one module
AttemptedInFull(modules, install, log, id) ==
    LET package == modules[FindModule(modules, id)]
        steps == StepsOf(log, id)
    IN IF install /\ package.fetch # None
       THEN /\ Len(steps) >= 1
            /\ steps[1].step = "fetch"
            /\ IF AttemptFailed(steps[1])
               THEN Len(steps) = 1
               ELSE Len(steps) = 2 /\ steps[2].step = "build"
       ELSE Len(steps) = 1 /\ steps[1].step = "build"

\* C17: in `build --all` and `install --all` a failing fetch or build of one
\* module does not end the batch: the command succeeds, every module of the
\* manifest is attempted in the resolved order, a module with a fetch block is
\* built exactly when its fetch succeeded, and every other module is built.
C17_BatchContinuesAfterFailure ==
    last.op \in {"build_all", "install_all"} =>
        /\ last.res.ok
        /\ Range(last.res.order) = Names(last.manifest)
        /\ Collapse(ModulesOfLog(last.res.log)) = last.res.order
        /\ \A id \in Names(last.manifest) :
              AttemptedInFull(last.manifest, last.opt.install, last.res.log, id)

\* an attempt failed and another module was attempted after it
C17_Witness ==
    /\ last.op \in {"build_all", "install_all"}
    /\ last.res.ok
    /\ \E i \in 1..Len(last.res.log) : \E j \in 1..Len(last.res.log) :
          /\ i < j
          /\ AttemptFailed(last.res.log[i])
          /\ last.res.log[j].module # last.res.log[i].module

\* the modules a batch command has to process
BatchTargets(modules, op, requested) ==
    IF op = "install_with_deps"
    THEN UNION {({id} \cap Names(modules)) \cup TransDeps(modules, id) :
                   id \in requested}
    ELSE Names(modules)

LastRequested == IF last.op = "install_with_deps" THEN last.requested ELSE {}

\* C18: the batch commands process modules one at a time in the order returned
\* by resolve_dependency_order, restricted with --with-deps to the union of the
\* dependency closures of the requested modules; the fetch of a module comes
\* right before its build, and a module is attempted after its dependencies.
C18_BatchInResolvedOrder ==
    (last.op \in {"build_all", "install_all", "install_with_deps"}
     /\ last.res.ok) =>
        LET done == Collapse(ModulesOfLog(last.res.log))
            targets == BatchTargets(last.manifest, last.op, LastRequested)
        IN /\ \E queue0 \in Perms(ZeroDegree(last.manifest)) :
                 resolve_dependency_order(last.manifest, queue0).order
                     = last.res.order
           /\ done = SelectSeq(last.res.order, LAMBDA id : id \in targets)
           /\ NoDuplicates(done)
           /\ DepsFirst(last.manifest, done)
           /\ \A id \in Range(done) :
                 AttemptedInFull(last.manifest, last.opt.install,
                                 last.res.log, id)

\* --with-deps b processes a and then b, and leaves c out
C18_Witness ==
    /\ last.op = "install_with_deps"
    /\ last.requested = {"b"}
    /\ last.res.ok
    /\ Collapse(ModulesOfLog(last.res.log)) = <<"a", "b">>
    /\ "c" \in Range(last.res.order)

\* ------------------------------------------------------------------------
\* validate_manifest (manifest.rs)

Ok == [ok |-> TRUE]

\* pass 1: index of the first module whose id was seen before, 0 if none
FirstDuplicate(modules) ==
    LET hits == {i \in 1..Len(modules) :
                    \E j \in 1..(i - 1) : modules[j].name = modules[i].name}
    IN IF hits = {} THEN 0 ELSE CHOOSE i \in hits : \A j \in hits : i <= j

\* pass 2: <<module index, dependency index>> of the first dependency that
\* names no module, <<0, 0>> if none
FirstMissing(modules) ==
    LET all == UNION {{<<i, k>> : k \in 1..Len(modules[i].depends_on)} :
                         i \in 1..Len(modules)}
        hits == {p \in all :
                    FindModule(modules, modules[p[1]].depends_on[p[2]]) = 0}
    IN IF hits = {} THEN <<0, 0>>
       ELSE CHOOSE p \in hits : \A q \in hits :
               p[1] < q[1] \/ (p[1] = q[1] /\ p[2] <= q[2])

DuplicateError(modules, i) ==
    [ok |-> FALSE, kind |-> "Duplicate package ID", id |-> modules[i].name]

MissingError(modules, p) ==
    [ok |-> FALSE, kind |-> "Dependency not found for package",
     dep |-> modules[p[1]].depends_on[p[2]], pkg |-> modules[p[1]].name]

\* variant: the dependency pass runs before the duplicate pass
validate_manifest_DepsFirst(modules) ==
    IF FirstMissing(modules) # <<0, 0>>
    THEN MissingError(modules, FirstMissing(modules))
    ELSE IF FirstDuplicate(modules) # 0
    THEN DuplicateError(modules, FirstDuplicate(modules))
    ELSE Ok

validate_manifest(modules) ==
    IF FirstDuplicate(modules) # 0
    THEN DuplicateError(modules, FirstDuplicate(modules))
    ELSE IF FirstMissing(modules) # <<0, 0>>
    THEN MissingError(modules, FirstMissing(modules))
    ELSE Ok

\* module lists with repeated ids and with dependencies on modules that are
\* not in the list ("x" names no module of any list)
ValidateModules ==
    {Module(name, deps, None, None) :
        name \in {"a", "b"}, deps \in SeqsUpTo({"a", "x"}, MaxListed)}

InitValidate ==
    /\ manifest \in SeqsUpTo(ValidateModules, MaxModules)
    /\ InitWorld

CmdValidate ==
    /\ last.op = "init"
    /\ last' = [op |-> "validate", res |-> validate_manifest(manifest)]
    /\ UNCHANGED <<manifest, lock, dist, sources, cache, edits>>

NextValidate == CmdValidate

SpecValidate == InitValidate /\ [][NextValidate]_vars

Occurrences(modules, id) ==
    Cardinality({i \in 1..Len(modules) : modules[i].name = id})

AllDeps(modules) ==
    UNION {Range(modules[i].depends_on) : i \in 1..Len(modules)}

\* C16: validation accepts exactly the lists without a repeated id and without
\* a dependency on a missing module; a list with a repeated id is rejected
\* with a duplicate error that names an id occurring twice, whatever its
\* dependencies are; any other rejected list is rejected with an error naming
\* a module of the list and a dependency of that module that names no module.
C16_ValidateManifest ==
    last.op = "validate" =>
        LET unique == \A id \in Names(manifest) : Occurrences(manifest, id) = 1
            resolved == AllDeps(manifest) \subseteq Names(manifest)
            res == last.res
        IN /\ res.ok <=> (unique /\ resolved)
           /\ ~unique =>
                 /\ ~res.ok
                 /\ res.kind = "Duplicate package ID"
                 /\ Occurrences(manifest, res.id) >= 2
           /\ (unique /\ ~resolved) =>
                 /\ ~res.ok
                 /\ res.kind = "Dependency not found for package"
                 /\ res.dep \notin Names(manifest)
                 /\ \E i \in 1..Len(manifest) :
                       /\ manifest[i].name = res.pkg
                       /\ res.dep \in Range(manifest[i].depends_on)

\* a list with a repeated id and an unresolved dependency was validated
C16_Witness ==
    /\ last.op = "validate"
    /\ \E id \in Names(manifest) : Occurrences(manifest, id) >= 2
    /\ ~(AllDeps(manifest) \subseteq Names(manifest))
    /\ ~last.res.ok

\* ------------------------------------------------------------------------
\* Manifest text (parser/parser.rs, ast.rs PrettyPrint)
\*
\* Text is a sequence of characters.  A manifest text is kept as the sequence
\* of its module blocks, each block with the tokens of its fields as they are
\* written: the keywords, braces, brackets and `=` signs between the tokens
\* are the ones PrettyPrint emits and the format of the manifest requires.
\* Identifiers (module names, export and env keys) are written bare and are
\* kept as they are; every value token is kept character by character.

QUOTE == "\""

BACKSLASH == "\\"

NEWLINE == "\n"

CR == "\r"

TAB == "\t"

SPACE == " "

\* a character that takes three bytes in UTF-8
WIDE == "U+4E16"

Width(c) == IF c = WIDE THEN 3 ELSE 1

\* str::len: the length of the text in bytes
RECURSIVE ByteLen(_)
ByteLen(text) ==
    IF text = <<>> THEN 0 ELSE Width(text[1]) + ByteLen(Tail(text))

\* str::is_char_boundary
IsCharBoundary(text, n) ==
    \E k \in 0..Len(text) : ByteLen(SubSeq(text, 1, k)) = n

Quoted(text) == <<QUOTE>> \o text \o <<QUOTE>>

\* Tokens of the grammar (parser/sprout.pest).  A string starts with a quote
\* and ends at the first quote that is not escaped by a backslash; a
\* backslash takes the character after it with it.
RECURSIVE ClosingQuote(_, _)
ClosingQuote(tok, i) ==
    IF i > Len(tok) THEN 0
    ELSE IF tok[i] = BACKSLASH THEN ClosingQuote(tok, i + 2)
    ELSE IF tok[i] = QUOTE THEN i
    ELSE ClosingQuote(tok, i + 1)

\* tok is exactly one string
IsString(tok) ==
    /\ Len(tok) >= 2
    /\ tok[1] = QUOTE
    /\ ClosingQuote(tok, 2) = Len(tok)

\* tok is one bare token: not empty, no quote and no white space in it
IsUnquoted(tok) ==
    /\ Len(tok) >= 1
    /\ \A i \in 1..Len(tok) : tok[i] \notin {QUOTE, SPACE, NEWLINE, CR, TAB}

IsValue(tok) == IsString(tok) \/ IsUnquoted(tok)

\* str::replace for a pattern of two characters: matches are found from the
\* left and do not overlap
RECURSIVE Replace(_, _, _, _)
Replace(text, c1, c2, to) ==
    IF Len(text) < 2 THEN text
    ELSE IF text[1] = c1 /\ text[2] = c2
    THEN <<to>> \o Replace(SubSeq(text, 3, Len(text)), c1, c2, to)
    ELSE <<text[1]>> \o Replace(Tail(text), c1, c2, to)

\* the chain of replace calls of parse_string
Unescape(inner) ==
    Replace(Replace(Replace(Replace(Replace(inner,
        BACKSLASH, QUOTE, QUOTE),
        BACKSLASH, BACKSLASH, BACKSLASH),
        BACKSLASH, "n", NEWLINE),
        BACKSLASH, "r", CR),
        BACKSLASH, "t", TAB)

ParseError(msg) == [ok |-> FALSE, err |-> msg]

\* a slice that does not lie on character boundaries panics
Panic == [ok |-> FALSE, err |-> "panic"]

Parsed(value) == [ok |-> TRUE, value |-> value]

parse_string(tok) ==
    IF ByteLen(tok) < 2 \/ tok[1] # QUOTE \/ tok[Len(tok)] # QUOTE
    THEN ParseError("Invalid string format")
    ELSE IF ~IsCharBoundary(tok, 1) \/ ~IsCharBoundary(tok, ByteLen(tok) - 1)
    THEN Panic
    ELSE Parsed(Unescape(SubSeq(tok, 2, Len(tok) - 1)))

\* Rule::string => parse_string, Rule::unquoted_value => the text itself
parse_value(tok) ==
    IF IsString(tok) THEN parse_string(tok) ELSE Parsed(tok)

\* the first error of a sequence of results, or the sequence of their values
Collect(results) ==
    LET bad == {i \in 1..Len(results) : ~results[i].ok}
    IN IF bad # {}
       THEN results[CHOOSE i \in bad : \A j \in bad : i <= j]
       ELSE Parsed([i \in 1..Len(results) |-> results[i].value])

parse_array(toks) == Collect([i \in 1..Len(toks) |-> parse_value(toks[i])])

\* Ok((key, value)) of the value parsed for a key, or its error
Keyed(key, r) == IF r.ok THEN Parsed(<<key, r.value>>) ELSE r

\* entries are <<key, string token>>; the result keeps the order of the text
ParseEntry(entry) == Keyed(entry[1], parse_string(entry[2]))

parse_exports_map(entries) ==
    Collect([i \in 1..Len(entries) |-> ParseEntry(entries[i])])

\* Ok(Some(value)) of a result, or its error
SomeOf(r) == IF r.ok THEN Parsed(Some(r.value)) ELSE r

\* Option<token> to Result<Option<String>>
ParseOptional(tok) ==
    IF tok = None THEN Parsed(None) ELSE SomeOf(parse_value(tok[1]))

\* the fields of a spec in the order they are parsed: the first error, or
\* the values
ParseFields(toks) == Collect([i \in 1..Len(toks) |-> ParseOptional(toks[i])])

TrueToken == <<"t", "r", "u", "e">>

\* fields: the results for url, ref and recursive
GitSpecOf(fields) ==
    IF ~fields.ok THEN fields
    ELSE IF fields.value[1] = None THEN ParseError("Git spec missing url")
    ELSE Parsed([kind |-> "Git", url |-> fields.value[1][1],
                 ref_ |-> fields.value[2],
                 recursive |-> fields.value[3] = Some(TrueToken)])

\* fields: the results for url and sha256
HttpSpecOf(fields) ==
    IF ~fields.ok THEN fields
    ELSE IF fields.value[1] = None THEN ParseError("HTTP spec missing url")
    ELSE Parsed([kind |-> "Http", url |-> fields.value[1][1],
                 sha256 |-> fields.value[2]])

\* fields: the result for path
LocalSpecOf(fields) ==
    IF ~fields.ok THEN fields
    ELSE IF fields.value[1] = None THEN ParseError("Local spec missing path")
    ELSE Parsed([kind |-> "Local", path |-> fields.value[1][1]])

parse_fetch_spec(ft) ==
    IF ft.kind = "git"
    THEN GitSpecOf(ParseFields(<<ft.url, ft.ref, ft.recursive>>))
    ELSE IF ft.kind = "http"
    THEN HttpSpecOf(ParseFields(<<ft.url, ft.sha256>>))
    ELSE LocalSpecOf(ParseFields(<<ft.path>>))

\* parts: the results for the spec and for output
FetchBlockOf(parts) ==
    IF ~parts.ok THEN parts
    ELSE Parsed([spec |-> parts.value[1], output |-> parts.value[2]])

parse_fetch_block(ft) ==
    FetchBlockOf(Collect(<<parse_fetch_spec(ft), ParseOptional(ft.output)>>))

IsWhite(c) == c \in {SPACE, TAB, CR, NEWLINE}

\* str::trim
RECURSIVE Trim(_)
Trim(line) ==
    IF line = <<>> THEN line
    ELSE IF IsWhite(line[1]) THEN Trim(Tail(line))
    ELSE IF IsWhite(line[Len(line)]) THEN Trim(SubSeq(line, 1, Len(line) - 1))
    ELSE line

\* the trimmed command lines that are not empty, in the order of the text
RECURSIVE Commands(_)
Commands(lines) ==
    IF lines = <<>> THEN <<>>
    ELSE IF Trim(lines[1]) = <<>> THEN Commands(Tail(lines))
    ELSE <<Trim(lines[1])>> \o Commands(Tail(lines))

\* env: the result for the env entries
ScriptOf(env, lines) ==
    IF ~env.ok THEN env
    ELSE Parsed([env |-> env.value, commands |-> Commands(lines)])

parse_script_block(st) ==
    ScriptOf(Collect([i \in 1..Len(st.env) |-> ParseEntry(st.env[i])]),
             st.lines)

ParseOptionalFetch(block) ==
    IF block = None THEN Parsed(None) ELSE SomeOf(parse_fetch_block(block[1]))

ParseOptionalScript(block) ==
    IF block = None THEN Parsed(None) ELSE SomeOf(parse_script_block(block[1]))

\* parts: the results for depends_on, exports, fetch, build and update
ModuleBlockOf(name, parts) ==
    IF ~parts.ok THEN parts
    ELSE Parsed([name |-> name, depends_on |-> parts.value[1],
                 exports |-> parts.value[2], fetch |-> parts.value[3],
                 build |-> parts.value[4], update |-> parts.value[5]])

parse_module_block(mt) ==
    ModuleBlockOf(mt.name,
             Collect(<<parse_array(mt.depends_on),
                       parse_exports_map(mt.exports),
                       ParseOptionalFetch(mt.fetch),
                       ParseOptionalScript(mt.build),
                       ParseOptionalScript(mt.update)>>))

IdRank(id) == CHOOSE i \in 1..Len(IdOrder) : IdOrder[i] = id

\* stable insertion of a module into a list sorted by id
RECURSIVE InsertById(_, _)
InsertById(sorted, m) ==
    IF sorted = <<>>
    THEN <<m>>
    ELSE IF IdRank(m.name) < IdRank(sorted[1].name)
    THEN <<m>> \o sorted
    ELSE <<sorted[1]>> \o InsertById(Tail(sorted), m)

\* variant: the list is left in the order it has
RECURSIVE SortById_AsGiven(_)
SortById_AsGiven(modules) ==
    IF modules = <<>> THEN <<>>
    ELSE SortById_AsGiven(SubSeq(modules, 1, Len(modules) - 1))
            \o <<modules[Len(modules)]>>

\* modules.sort_by_key(|p| p.id())
RECURSIVE SortById(_)
SortById(modules) ==
    IF modules = <<>> THEN <<>>
    ELSE InsertById(SortById(SubSeq(modules, 1, Len(modules) - 1)),
                    modules[Len(modules)])

\* What the grammar accepts (parser/sprout.pest): every value is a string or
\* a bare token, the values of exports and env entries are strings, and a
\* command line ends at the end of its line.
AcceptsOptional(tok) == tok = None \/ IsValue(tok[1])

AcceptsFetch(ft) ==
    /\ AcceptsOptional(ft.output)
    /\ IF ft.kind = "git"
       THEN /\ AcceptsOptional(ft.url)
            /\ AcceptsOptional(ft.ref)
            /\ AcceptsOptional(ft.recursive)
       ELSE IF ft.kind = "http"
       THEN AcceptsOptional(ft.url) /\ AcceptsOptional(ft.sha256)
       ELSE AcceptsOptional(ft.path)

AcceptsScript(st) ==
    /\ \A i \in 1..Len(st.env) : IsString(st.env[i][2])
    /\ \A i \in 1..Len(st.lines) :
          \A k \in 1..Len(st.lines[i]) : st.lines[i][k] # NEWLINE

AcceptsModule(mt) ==
    /\ \A i \in 1..Len(mt.depends_on) : IsValue(mt.depends_on[i])
    /\ \A i \in 1..Len(mt.exports) : IsString(mt.exports[i][2])
    /\ mt.fetch = None \/ AcceptsFetch(mt.fetch[1])
    /\ mt.build = None \/ AcceptsScript(mt.build[1])
    /\ mt.update = None \/ AcceptsScript(mt.update[1])

Accepts(text) == \A i \in 1..Len(text) : AcceptsModule(text[i])

\* modules: the results for the module blocks
ManifestOf(modules) ==
    IF ~modules.ok THEN modules
    ELSE [ok |-> TRUE, modules |-> SortById(modules.value)]

parse_manifest(text) ==
    IF ~Accepts(text) THEN ParseError("Parse error")
    ELSE ManifestOf(Collect([i \in 1..Len(text) |->
                                parse_module_block(text[i])]))

\* ------------------------------------------------------------------------
\* PrettyPrint (ast.rs)

Indent(n) == [i \in 1..n |-> SPACE]

\* Git and Http fields are written as they are, the Local path in quotes;
\* the output field of the fetch block is not written
PrintFetchSpec(spec) ==
    IF spec.kind = "Git"
    THEN [kind |-> "git", url |-> Some(spec.url), ref |-> spec.ref_,
          recursive |-> IF spec.recursive THEN Some(TrueToken) ELSE None,
          output |-> None]
    ELSE IF spec.kind = "Http"
    THEN [kind |-> "http", url |-> Some(spec.url), sha256 |-> spec.sha256,
          output |-> None]
    ELSE [kind |-> "local", path |-> Some(Quoted(spec.path)), output |-> None]

PrintEntries(entries) ==
    [i \in 1..Len(entries) |-> <<entries[i][1], Quoted(entries[i][2])>>]

\* env sorted by key, then the commands, each on a line of its own
PrintScript(script) ==
    [env |-> PrintEntries(SortEnv(script.env)),
     lines |-> [i \in 1..Len(script.commands) |->
                   Indent(8) \o script.commands[i]]]

PrintModule(m) ==
    [name |-> m.name,
     depends_on |-> m.depends_on,
     exports |-> PrintEntries(m.exports),
     fetch |-> IF m.fetch = None THEN None
               ELSE Some(PrintFetchSpec(m.fetch[1].spec)),
     build |-> IF m.build = None THEN None ELSE Some(PrintScript(m.build[1])),
     update |-> IF m.update = None THEN None
                ELSE Some(PrintScript(m.update[1]))]

pretty_print(modules) ==
    [i \in 1..Len(modules) |-> PrintModule(SortById(modules)[i])]

\* ------------------------------------------------------------------------
\* Manifest texts of the model

BodyChars == {"a", "n", BACKSLASH, QUOTE}

\* a quote, any text, a quote: not all of them are strings of the grammar
StringTokens == {Quoted(body) : body \in SeqsUpTo(BodyChars, MaxBody)}

PlainBlock(name) ==
    [name |-> name, depends_on |-> <<>>, exports |-> <<>>, fetch |-> None,
     build |-> None, update |-> None]

ExportsBlocks ==
    {[PlainBlock("b") EXCEPT !.depends_on = deps, !.exports = exports] :
        deps \in SeqsUpTo({<<"a">>, Quoted(<<"a">>)}, 1),
        exports \in UNION {{<< <<"P", s>> >>,
                            << <<"P", s>>, <<"L", Quoted(<<"a">>)>> >>} :
                              s \in StringTokens}}

UrlTokens == {None, Some(<<"a">>), Some(Quoted(<<"a">>)), Some(Quoted(<<>>))}

FetchBlocks ==
    {[PlainBlock("b") EXCEPT !.fetch = Some(ft)] :
        ft \in [kind : {"git"}, url : UrlTokens, ref : {None, Some(<<"n">>)},
                recursive : {None, Some(TrueToken), Some(<<"n">>)},
                output : {None}]
          \cup [kind : {"http"}, url : UrlTokens,
                sha256 : {None, Some(<<"n">>)},
                output : {None, Some(<<"n">>)}]
          \cup [kind : {"local"}, path : UrlTokens, output : {None}]}

EnvEntries ==
    {<<"CC", Quoted(<<"a">>)>>, <<"AR", Quoted(<<"a">>)>>,
     <<"CC", Quoted(<<BACKSLASH, "n">>)>>}

CommandLines == {<<"m">>, <<SPACE, "k", SPACE>>, <<SPACE>>}

ScriptTexts ==
    [env : SeqsUpTo(EnvEntries, MaxEnv),
     lines : SeqsUpTo(CommandLines, MaxLines)]

UpdateText ==
    [env |-> << <<"CC", Quoted(<<"a">>)>>, <<"AR", Quoted(<<"n">>)>> >>,
     lines |-> << <<"m">>, <<"k">> >>]

ScriptBlocks ==
    {[PlainBlock("b") EXCEPT !.build = Some(st)] : st \in ScriptTexts}
      \cup {[PlainBlock("b") EXCEPT !.build = build, !.update = Some(UpdateText)] :
               build \in {None, Some(UpdateText)}}

ModuleTexts == ExportsBlocks \cup FetchBlocks \cup ScriptBlocks

\* one block named b, alone or with a plain block before or after it
UserTexts ==
    {<<mt>> : mt \in ModuleTexts}
      \cup {<<mt, PlainBlock(id)>> : mt \in ModuleTexts, id \in Ids}
      \cup {<<PlainBlock(id), mt>> : mt \in ModuleTexts, id \in Ids}

InitText ==
    /\ manifest = <<>>
    /\ lock = <<>>
    /\ dist = [id \in Ids |-> FALSE]
    /\ sources = {}
    /\ cache = <<>>
    /\ edits = 0
    /\ \E text \in UserTexts : last = [op |-> "text", text |-> text]

\* parse_manifest on the text the user wrote
CmdParse ==
    /\ last.op = "text"
    /\ \E res \in {parse_manifest(last.text)} :
          /\ manifest' = IF res.ok THEN res.modules ELSE manifest
          /\ last' = [op |-> "parse", text |-> last.text, res |-> res]
    /\ UNCHANGED <<lock, dist, sources, cache, edits>>

\* pretty_print on the manifest in memory, its modules in any order
CmdPrettyPrint(order) ==
    LET modules == [i \in 1..Len(manifest) |-> manifest[order[i]]]
    IN /\ last.op = "parse"
       /\ last.res.ok
       /\ last' = [op |-> "pretty_print", source |-> last.text,
                   of |-> modules, text |-> pretty_print(modules)]
       /\ UNCHANGED <<manifest, lock, dist, sources, cache, edits>>

\* parse_manifest on the printed text
CmdReparse ==
    /\ last.op = "pretty_print"
    /\ \E res \in {parse_manifest(last.text)} :
          /\ manifest' = IF res.ok THEN res.modules ELSE manifest
          /\ last' = [op |-> "reparse", before |-> last.of,
                      text |-> last.text, res |-> res]
    /\ UNCHANGED <<lock, dist, sources, cache, edits>>

NextText ==
    \/ CmdParse
    \/ \E order \in Perms(1..Len(manifest)) : CmdPrettyPrint(order)
    \/ CmdReparse

SpecText == InitText /\ [][NextText]_vars

\* ------------------------------------------------------------------------
\* Properties of parse_manifest and pretty_print

Sorted(modules) ==
    \A i \in 1..Len(modules) : \A j \in 1..Len(modules) :
        i < j => IdRank(modules[i].name) <= IdRank(modules[j].name)

NameCount(blocks, id) ==
    Cardinality({i \in 1..Len(blocks) : blocks[i].name = id})

SameNames(x, y) == \A id \in Ids : NameCount(x, id) = NameCount(y, id)

\* C20: parse_manifest returns the modules of the text in ascending order of
\* their ids, whatever the order of the blocks in the text, and pretty_print
\* writes the blocks in ascending order of the ids, whatever the order of the
\* modules in memory.
C20_SortedById ==
    /\ (last.op \in {"parse", "reparse"} /\ last.res.ok) =>
          /\ Sorted(last.res.modules)
          /\ SameNames(last.res.modules, last.text)
    /\ last.op = "pretty_print" =>
          /\ Sorted(last.text)
          /\ SameNames(last.text, last.of)

\* a text with its blocks in descending order was parsed, and the modules
\* were then printed from a list in descending order
C20_Witness ==
    /\ last.op = "pretty_print"
    /\ ~Sorted(last.source)
    /\ Sorted(manifest)
    /\ ~Sorted(last.of)
    /\ Len(last.text) = 2

FetchSpecOf(m) == IF m.fetch = None THEN None ELSE Some(m.fetch[1].spec)

CommandsOf(block) == IF block = None THEN None ELSE Some(block[1].commands)

EnvKeysOf(block) ==
    IF block = None THEN None
    ELSE Some([i \in 1..Len(block[1].env) |-> block[1].env[i][1]])

\* C11: parsing the printed text of a manifest that parse_manifest returned
\* succeeds and yields, module by module, the same id, depends_on list,
\* exports list, fetch specification and build commands.
C11_RoundTrip ==
    (last.op = "reparse" /\ Sorted(last.before)) =>
        /\ last.res.ok
        /\ Len(last.res.modules) = Len(last.before)
        /\ \A i \in 1..Len(last.before) :
              LET m == last.before[i]
                  r == last.res.modules[i]
              IN /\ r.name = m.name
                 /\ r.depends_on = m.depends_on
                 /\ r.exports = m.exports
                 /\ FetchSpecOf(r) = FetchSpecOf(m)
                 /\ CommandsOf(r.build) = CommandsOf(m.build)

\* C12: where the printed text of a manifest parses, the env entries and the
\* command lines of every build and update script are in the order they had
\* before printing.
C12_ScriptOrderKept ==
    (last.op = "reparse" /\ Sorted(last.before) /\ last.res.ok) =>
        \A i \in 1..Len(last.before) :
            LET m == last.before[i]
                r == last.res.modules[i]
            IN /\ EnvKeysOf(r.build) = EnvKeysOf(m.build)
               /\ CommandsOf(r.build) = CommandsOf(m.build)
               /\ EnvKeysOf(r.update) = EnvKeysOf(m.update)
               /\ CommandsOf(r.update) = CommandsOf(m.update)

\* ------------------------------------------------------------------------
\* The parse tree (parser/sprout.pest) and the walk over it (parser.rs)
\*
\* Here the text is a sequence of tokens: the keywords, the punctuation,
\* "id" for an identifier or bare value, "str" for a string, "cmd" for a
\* command line and "bad" for text that is no token at all (a string that is
\* not closed, a stray character).  The grammar turns it into a tree of
\* pairs, each with its rule and its inner pairs, or fails.

Pair(rule, inner) == [rule |-> rule, inner |-> inner]

Matched(pair, next) == [ok |-> TRUE, pair |-> pair, next |-> next]

NoMatch == [ok |-> FALSE, pair |-> Pair("none", <<>>), next |-> 0]

TokenAt(toks, i) == IF i <= Len(toks) THEN toks[i] ELSE "EOI"

\* value = { string | unquoted_value }
GrammarValue(toks, i) ==
    IF TokenAt(toks, i) = "str"
    THEN Matched(Pair("value", <<Pair("string", <<>>)>>), i + 1)
    ELSE IF TokenAt(toks, i) = "id"
    THEN Matched(Pair("value", <<Pair("unquoted_value", <<>>)>>), i + 1)
    ELSE NoMatch

\* the rest of an array after a value: `]`, or `,` and one more value
RECURSIVE GrammarArrayRest(_, _, _)
GrammarArrayRest(toks, i, inner) ==
    IF TokenAt(toks, i) = "]" THEN Matched(Pair("array", inner), i + 1)
    ELSE IF TokenAt(toks, i) = "," /\ GrammarValue(toks, i + 1).ok
    THEN GrammarArrayRest(toks, GrammarValue(toks, i + 1).next,
                          Append(inner, GrammarValue(toks, i + 1).pair))
    ELSE NoMatch

\* array = { "[" ~ (value ~ ("," ~ value)*)? ~ "]" }
GrammarArray(toks, i) ==
    IF TokenAt(toks, i) # "[" THEN NoMatch
    ELSE IF TokenAt(toks, i + 1) = "]" THEN Matched(Pair("array", <<>>), i + 2)
    ELSE IF GrammarValue(toks, i + 1).ok
    THEN GrammarArrayRest(toks, GrammarValue(toks, i + 1).next,
                          <<GrammarValue(toks, i + 1).pair>>)
    ELSE NoMatch

\* entries `key = "string"` up to the closing brace (exports map, env block)
RECURSIVE GrammarEntries(_, _, _, _, _)
GrammarEntries(rule, entry, toks, i, inner) ==
    IF TokenAt(toks, i) = "}" THEN Matched(Pair(rule, inner), i + 1)
    ELSE IF /\ TokenAt(toks, i) = "id"
            /\ TokenAt(toks, i + 1) = "="
            /\ TokenAt(toks, i + 2) = "str"
    THEN GrammarEntries(rule, entry, toks, i + 3,
             Append(inner, Pair(entry, <<Pair("identifier", <<>>),
                                         Pair("string", <<>>)>>)))
    ELSE NoMatch

GitFieldRule(tok) ==
    IF tok = "url" THEN "git_url_field"
    ELSE IF tok = "ref" THEN "git_ref_field"
    ELSE "git_recursive_field"

\* git_field* ~ "}"
RECURSIVE GrammarGitFields(_, _, _)
GrammarGitFields(toks, i, inner) ==
    IF TokenAt(toks, i) = "}" THEN Matched(Pair("git_spec", inner), i + 1)
    ELSE IF /\ TokenAt(toks, i) \in {"url", "ref", "recursive"}
            /\ TokenAt(toks, i + 1) = "="
            /\ GrammarValue(toks, i + 2).ok
    THEN GrammarGitFields(toks, GrammarValue(toks, i + 2).next,
             Append(inner,
                    Pair("git_field",
                         <<Pair(GitFieldRule(TokenAt(toks, i)),
                                <<GrammarValue(toks, i + 2).pair>>)>>)))
    ELSE NoMatch

\* fetch_field* ~ "}": a fetch spec (`git = { ... }`) or `output = value`
RECURSIVE GrammarFetchFields(_, _, _)
GrammarFetchFields(toks, i, inner) ==
    IF TokenAt(toks, i) = "}" THEN Matched(Pair("fetch_block", inner), i + 1)
    ELSE IF /\ TokenAt(toks, i) = "git"
            /\ TokenAt(toks, i + 1) = "="
            /\ TokenAt(toks, i + 2) = "{"
            /\ GrammarGitFields(toks, i + 3, <<>>).ok
    THEN GrammarFetchFields(toks, GrammarGitFields(toks, i + 3, <<>>).next,
             Append(inner,
                    Pair("fetch_field",
                         <<Pair("fetch_spec",
                                <<GrammarGitFields(toks, i + 3, <<>>).pair>>)>>)))
    ELSE IF /\ TokenAt(toks, i) = "output"
            /\ TokenAt(toks, i + 1) = "="
            /\ GrammarValue(toks, i + 2).ok
    THEN GrammarFetchFields(toks, GrammarValue(toks, i + 2).next,
             Append(inner,
                    Pair("fetch_field",
                         <<Pair("fetch_output_field",
                                <<GrammarValue(toks, i + 2).pair>>)>>)))
    ELSE NoMatch

\* command_line* ~ "}"
RECURSIVE GrammarCommands(_, _, _)
GrammarCommands(toks, i, inner) ==
    IF TokenAt(toks, i) = "}" THEN Matched(Pair("script_content", inner), i + 1)
    ELSE IF TokenAt(toks, i) = "cmd"
    THEN GrammarCommands(toks, i + 1, Append(inner, Pair("command_line", <<>>)))
    ELSE NoMatch

\* build_block = { "build" ~ "{" ~ env_block? ~ script_content ~ "}" }
GrammarScript(rule, toks, i) ==
    LET env == GrammarEntries("env_block", "env_entry", toks, i + 2, <<>>)
        plain == GrammarCommands(toks, i, <<>>)
        after == GrammarCommands(toks, env.next, <<>>)
    IN IF TokenAt(toks, i) = "env" /\ TokenAt(toks, i + 1) = "{"
       THEN IF env.ok /\ after.ok
            THEN Matched(Pair(rule, <<env.pair, after.pair>>), after.next)
            ELSE NoMatch
       ELSE IF plain.ok
       THEN Matched(Pair(rule, <<plain.pair>>), plain.next)
       ELSE NoMatch

\* one field of a module block, wrapped in module_field
GrammarModuleField(toks, i) ==
    LET tok == TokenAt(toks, i)
        wrap(m) == IF m.ok
                   THEN Matched(Pair("module_field", <<m.pair>>), m.next)
                   ELSE NoMatch
        field(rule, m) == IF m.ok THEN Matched(Pair(rule, <<m.pair>>), m.next)
                          ELSE NoMatch
    IN IF tok = "depends_on" /\ TokenAt(toks, i + 1) = "="
       THEN wrap(field("depends_on_field", GrammarArray(toks, i + 2)))
       ELSE IF /\ tok = "exports"
               /\ TokenAt(toks, i + 1) = "="
               /\ TokenAt(toks, i + 2) = "{"
       THEN wrap(field("exports_field",
                       GrammarEntries("exports_map", "exports_entry",
                                      toks, i + 3, <<>>)))
       ELSE IF tok = "fetch" /\ TokenAt(toks, i + 1) = "{"
       THEN wrap(GrammarFetchFields(toks, i + 2, <<>>))
       ELSE IF tok = "build" /\ TokenAt(toks, i + 1) = "{"
       THEN wrap(GrammarScript("build_block", toks, i + 2))
       ELSE IF tok = "update" /\ TokenAt(toks, i + 1) = "{"
       THEN wrap(GrammarScript("update_block", toks, i + 2))
       ELSE NoMatch

\* module_field* ~ "}"
RECURSIVE GrammarModuleFields(_, _, _)
GrammarModuleFields(toks, i, inner) ==
    IF TokenAt(toks, i) = "}" THEN Matched(Pair("module_block", inner), i + 1)
    ELSE IF GrammarModuleField(toks, i).ok
    THEN GrammarModuleFields(toks, GrammarModuleField(toks, i).next,
                             Append(inner, GrammarModuleField(toks, i).pair))
    ELSE NoMatch

\* environments entries `name = [ ... ]` up to the closing brace
RECURSIVE GrammarEnvironments(_, _, _)
GrammarEnvironments(toks, i, inner) ==
    IF TokenAt(toks, i) = "}"
    THEN Matched(Pair("environments_block", inner), i + 1)
    ELSE IF /\ TokenAt(toks, i) = "id"
            /\ TokenAt(toks, i + 1) = "="
            /\ GrammarArray(toks, i + 2).ok
    THEN GrammarEnvironments(toks, GrammarArray(toks, i + 2).next,
             Append(inner, Pair("environment_entry",
                                <<Pair("identifier", <<>>),
                                  GrammarArray(toks, i + 2).pair>>)))
    ELSE NoMatch

\* manifest = { SOI ~ statement* ~ EOI }
RECURSIVE GrammarManifest(_, _, _)
GrammarManifest(toks, i, inner) ==
    LET module == GrammarModuleFields(toks, i + 3, <<Pair("identifier", <<>>)>>)
        envs == GrammarEnvironments(toks, i + 2, <<>>)
    IN IF TokenAt(toks, i) = "EOI"
       THEN Matched(Pair("manifest", Append(inner, Pair("EOI", <<>>))), i)
       ELSE IF /\ TokenAt(toks, i) = "module"
               /\ TokenAt(toks, i + 1) = "id"
               /\ TokenAt(toks, i + 2) = "{"
               /\ module.ok
       THEN GrammarManifest(toks, module.next,
                Append(inner, Pair("statement", <<module.pair>>)))
       ELSE IF /\ TokenAt(toks, i) = "environments"
               /\ TokenAt(toks, i + 1) = "{"
               /\ envs.ok
       THEN GrammarManifest(toks, envs.next,
                Append(inner, Pair("statement", <<envs.pair>>)))
       ELSE NoMatch

\* SproutParser::parse(Rule::manifest, input)
SproutParser_parse(toks) == GrammarManifest(toks, 1, <<>>)

\* The walk over the pairs.  Its outcome is "ok", "err" (an Err is returned)
\* or "panic" (an unwrap finds no pair); the first of them that is not "ok"
\* ends the walk.

HasInner(pair, n) == Len(pair.inner) >= n

RECURSIVE FirstOutcome(_)
FirstOutcome(outcomes) ==
    IF outcomes = <<>> THEN "ok"
    ELSE IF outcomes[1] # "ok" THEN outcomes[1]
    ELSE FirstOutcome(Tail(outcomes))

\* the text of the string pairs of the input
StringText == last.string

\* parse_string on the text of a string pair
WalkString ==
    IF parse_string(StringText).ok THEN "ok"
    ELSE IF parse_string(StringText) = Panic THEN "panic"
    ELSE "err"

\* parse_value: a value pair holds a string or an unquoted value
WalkValue(pair) ==
    IF pair.rule = "string" THEN WalkString
    ELSE IF pair.rule = "unquoted_value" THEN "ok"
    ELSE IF pair.rule # "value" THEN "err"
    ELSE IF ~HasInner(pair, 1) THEN "err"
    ELSE IF pair.inner[1].rule = "string" THEN WalkString
    ELSE IF pair.inner[1].rule = "unquoted_value" THEN "ok"
    ELSE "err"

\* unwrap of the first inner pair, then parse_value
WalkUnwrapValue(pair) ==
    IF ~HasInner(pair, 1) THEN "panic" ELSE WalkValue(pair.inner[1])

\* parse_array
WalkArray(pair) ==
    FirstOutcome([i \in 1..Len(pair.inner) |->
                     IF pair.inner[i].rule = "value"
                     THEN WalkValue(pair.inner[i]) ELSE "ok"])

\* key and value of an entry are unwrapped, the value is a string
WalkEntry(entry) == IF HasInner(entry, 2) THEN WalkString ELSE "panic"

\* parse_exports_map, and the env entries of parse_script_block
WalkEntries(pair) ==
    FirstOutcome([i \in 1..Len(pair.inner) |-> WalkEntry(pair.inner[i])])

WalkGitField(field) ==
    IF field.rule # "git_field" THEN "ok"
    ELSE IF ~HasInner(field, 1) THEN "panic"
    ELSE IF field.inner[1].rule \in
               {"git_url_field", "git_ref_field", "git_recursive_field"}
    THEN WalkUnwrapValue(field.inner[1])
    ELSE "ok"

HasUrl(spec) ==
    \E i \in 1..Len(spec.inner) :
        /\ spec.inner[i].rule = "git_field"
        /\ HasInner(spec.inner[i], 1)
        /\ spec.inner[i].inner[1].rule = "git_url_field"

\* parse_fetch_spec
WalkFetchSpec(pair) ==
    IF ~HasInner(pair, 1) THEN "err"
    ELSE IF pair.inner[1].rule # "git_spec" THEN "err"
    ELSE FirstOutcome(
             [i \in 1..Len(pair.inner[1].inner) |->
                 WalkGitField(pair.inner[1].inner[i])]
             \o <<IF HasUrl(pair.inner[1]) THEN "ok" ELSE "err">>)

WalkFetchField(field) ==
    IF field.rule # "fetch_field" THEN "ok"
    ELSE IF ~HasInner(field, 1) THEN "err"
    ELSE IF field.inner[1].rule = "fetch_output_field"
    THEN IF HasInner(field.inner[1], 1)
         THEN WalkValue(field.inner[1].inner[1]) ELSE "err"
    ELSE IF field.inner[1].rule = "fetch_spec"
    THEN WalkFetchSpec(field.inner[1])
    ELSE "ok"

HasSpec(pair) ==
    \E i \in 1..Len(pair.inner) :
        /\ pair.inner[i].rule = "fetch_field"
        /\ HasInner(pair.inner[i], 1)
        /\ pair.inner[i].inner[1].rule = "fetch_spec"

\* variant: the fetch spec is unwrapped
WalkFetchBlock_Unwrap(pair) ==
    FirstOutcome([i \in 1..Len(pair.inner) |-> WalkFetchField(pair.inner[i])]
                 \o <<IF HasSpec(pair) THEN "ok" ELSE "panic">>)

\* parse_fetch_block: a block without a spec is an error
WalkFetchBlock(pair) ==
    FirstOutcome([i \in 1..Len(pair.inner) |-> WalkFetchField(pair.inner[i])]
                 \o <<IF HasSpec(pair) THEN "ok" ELSE "err">>)

\* parse_script_block
WalkScriptBlock(pair) ==
    FirstOutcome([i \in 1..Len(pair.inner) |->
                     IF pair.inner[i].rule = "env_block"
                     THEN WalkEntries(pair.inner[i])
                     ELSE IF pair.inner[i].rule = "script_content"
                     THEN FirstOutcome(
                              [k \in 1..Len(pair.inner[i].inner) |->
                                  IF pair.inner[i].inner[k].rule = "env_block"
                                  THEN WalkEntries(pair.inner[i].inner[k])
                                  ELSE "ok"])
                     ELSE "ok"])

\* parse_environments_block
WalkEnvironmentsBlock(pair) ==
    FirstOutcome([i \in 1..Len(pair.inner) |->
                     IF ~HasInner(pair.inner[i], 2) THEN "panic"
                     ELSE WalkArray(pair.inner[i].inner[2])])

\* a field of the module block, inside module_field or directly
WalkField(field) ==
    IF field.rule = "depends_on_field"
    THEN IF HasInner(field, 1) THEN WalkArray(field.inner[1]) ELSE "panic"
    ELSE IF field.rule = "exports_field"
    THEN IF HasInner(field, 1) THEN WalkEntries(field.inner[1]) ELSE "panic"
    ELSE IF field.rule = "fetch_block" THEN WalkFetchBlock(field)
    ELSE IF field.rule \in {"build_block", "update_block"}
    THEN WalkScriptBlock(field)
    ELSE "ok"

\* parse_module_block
WalkModuleBlock(pair) ==
    IF ~HasInner(pair, 1) THEN "err"
    ELSE FirstOutcome([i \in 1..(Len(pair.inner) - 1) |->
                          LET field == pair.inner[i + 1]
                          IN IF field.rule = "module_field"
                             THEN IF HasInner(field, 1)
                                  THEN WalkField(field.inner[1])
                                  ELSE "panic"
                             ELSE WalkField(field)])

WalkStatement(pair) ==
    IF pair.rule = "module_block" THEN WalkModuleBlock(pair)
    ELSE IF pair.rule = "environments_block" THEN WalkEnvironmentsBlock(pair)
    ELSE "ok"

\* parse_manifest: a text the grammar rejects is an error, the pairs of any
\* other text are walked
WalkManifest(toks) ==
    LET parsed == SproutParser_parse(toks)
    IN IF ~parsed.ok THEN "err"
       ELSE FirstOutcome(
                [i \in 1..Len(parsed.pair.inner) |->
                    LET p == parsed.pair.inner[i]
                    IN IF p.rule = "statement"
                       THEN FirstOutcome([k \in 1..Len(p.inner) |->
                                             WalkStatement(p.inner[k])])
                       ELSE WalkStatement(p)])

\* ------------------------------------------------------------------------
\* Token texts of the model: well-formed manifests and what is left of them
\* when tokens are cut off, dropped or put in

FullTokens ==
    <<"module", "id", "{",
      "depends_on", "=", "[", "id", ",", "str", "]",
      "exports", "=", "{", "id", "=", "str", "}",
      "fetch", "{", "git", "=", "{", "url", "=", "id", "ref", "=", "str", "}",
                    "output", "=", "id", "}",
      "build", "{", "env", "{", "id", "=", "str", "}", "cmd", "cmd", "}",
      "}",
      "environments", "{", "id", "=", "[", "id", "]", "}">>

SmallTokens ==
    {<<>>,
     <<"module", "id", "{", "}">>,
     <<"module", "id", "{", "fetch", "{", "}", "}">>,
     <<"module", "id", "{", "fetch", "{", "git", "=", "{", "}", "}", "}">>,
     <<"module", "id", "{", "fetch", "{", "output", "=", "str", "}", "}">>,
     <<"module", "id", "{", "update", "{", "cmd", "}", "}",
       "module", "id", "{", "}">>}

TruncateAt(toks, k) == SubSeq(toks, 1, k)

DeleteAt(toks, k) == SubSeq(toks, 1, k - 1) \o SubSeq(toks, k + 1, Len(toks))

InsertAt(toks, k, tok) ==
    SubSeq(toks, 1, k) \o <<tok>> \o SubSeq(toks, k + 1, Len(toks))

Damaged(toks) ==
    {toks}
      \cup {TruncateAt(toks, k) : k \in 0..Len(toks)}
      \cup {DeleteAt(toks, k) : k \in 1..Len(toks)}
      \cup {InsertAt(toks, k, tok) : k \in 0..Len(toks),
                                    tok \in {"{", "}", "bad", "id"}}

TokenTexts ==
    UNION {Damaged(toks) : toks \in SmallTokens \cup {FullTokens}}
      \cup UNION {Damaged(DeleteAt(FullTokens, k)) : k \in {3, 19, 22, 29, 45}}

\* strings of the grammar: empty, plain, with escapes, with wide characters
StringTexts ==
    {Quoted(<<>>), Quoted(<<"a">>), Quoted(<<BACKSLASH, QUOTE>>),
     Quoted(<<WIDE>>), Quoted(<<"a", WIDE, WIDE>>),
     Quoted(<<BACKSLASH, WIDE>>)}

InitTokens ==
    /\ manifest = <<>>
    /\ lock = <<>>
    /\ dist = [id \in Ids |-> FALSE]
    /\ sources = {}
    /\ cache = <<>>
    /\ edits = 0
    /\ \E toks \in TokenTexts, text \in StringTexts :
          last = [op |-> "input", tokens |-> toks, string |-> text]

\* parse_manifest on the text
CmdParseTokens ==
    /\ last.op = "input"
    /\ last' = [op |-> "parse_tokens", tokens |-> last.tokens,
                string |-> last.string,
                outcome |-> WalkManifest(last.tokens)]
    /\ UNCHANGED <<manifest, lock, dist, sources, cache, edits>>

NextTokens == CmdParseTokens

SpecTokens == InitTokens /\ [][NextTokens]_vars

CountOf(toks, tok) == Cardinality({i \in 1..Len(toks) : toks[i] = tok})

\* as many closing as opening braces, and no brace closed before it is opened
Balanced(toks) ==
    /\ CountOf(toks, "{") = CountOf(toks, "}")
    /\ \A k \in 0..Len(toks) :
          CountOf(SubSeq(toks, 1, k), "{") >= CountOf(SubSeq(toks, 1, k), "}")

IsDigest(h) == h # None /\ Len(h) = 1 /\ DOMAIN h[1] = {"hashed"}

\* C21: compute_fetch_hash returns a fingerprint exactly for a module with a
\* fetch block and compute_build_hash exactly for a module with a build
\* block; without the block the result is None, not an error and not a digest.
C21_FingerprintIffBlock ==
    last.op = "fingerprints" =>
        \A i \in 1..2 :
            /\ (manifest[i].fetch = None => last.fetch[i] = None)
            /\ (manifest[i].fetch # None => IsDigest(last.fetch[i]))
            /\ (manifest[i].build = None => last.build[i] = None)
            /\ (manifest[i].build # None => IsDigest(last.build[i]))

\* a module with a build block and without a fetch block was fingerprinted
\* next to one with a fetch block and without a build block
C21_Witness ==
    /\ last.op = "fingerprints"
    /\ manifest[1].fetch = None
    /\ manifest[1].build # None
    /\ manifest[2].fetch # None
    /\ manifest[2].build = None
    /\ last.fetch[1] = None
    /\ last.build[2] = None
    /\ last.fetch[2] # None

\* ------------------------------------------------------------------------
\* The persisted files: sprout.lock (lockfile module) and manifest.sprout
\* (manifest.rs)
\*
\* In this part lock is the file sprout.lock, None when it does not exist and
\* else its two tables, and manifest is the file manifest.sprout, None when it
\* does not exist and else its text.

\* SproutLock { modules, symlinks } in memory: two maps
LockData(modules, symlinks) == [modules |-> modules, symlinks |-> symlinks]

\* a map as the entries of a table of the file, and back
TableOf(map) == {<<k, map[k]>> : k \in DOMAIN map}

MapOf(table) ==
    [k \in {e[1] : e \in table} |-> (CHOOSE e \in table : e[1] = k)[2]]

\* the file init_sprout writes: "[modules]" and "[symlinks]", both empty
EmptyLockFile == Some([modules |-> {}, symlinks |-> {}])

\* SproutLock::load: the default value when the file does not exist
SproutLock_load(file) ==
    IF file = None
    THEN LockData(<<>>, <<>>)
    ELSE LockData(MapOf(file[1].modules), MapOf(file[1].symlinks))

\* variant: a record without any fingerprint is not written
SproutLock_save_SkipsEmpty(mem) ==
    Some([modules |-> {e \in TableOf(mem.modules) : e[2] # EmptyState},
          symlinks |-> TableOf(mem.symlinks)])

\* SproutLock::save: every entry of both maps is written
SproutLock_save(mem) ==
    Some([modules |-> TableOf(mem.modules), symlinks |-> TableOf(mem.symlinks)])

\* the manifest a file without errors loads to
Loaded(modules) == [ok |-> TRUE, modules |-> modules, environments |-> None]

LoadError(context, cause) == [ok |-> FALSE, err |-> context, cause |-> cause]

\* the rest of load_manifest once the text is parsed: validate_manifest
LoadParsed(parsed) ==
    IF ~parsed.ok
    THEN LoadError("Failed to parse manifest.sprout", parsed)
    ELSE IF ~validate_manifest(parsed.modules).ok
    THEN LoadError("", validate_manifest(parsed.modules))
    ELSE Loaded(parsed.modules)

\* variant: a missing manifest file is an error
load_manifest_MissingIsError(file) ==
    IF file = None
    THEN LoadError("Failed to read manifest", None)
    ELSE LoadParsed(parse_manifest(file[1]))

load_manifest(file) ==
    IF file = None
    THEN Loaded(<<>>)
    ELSE LoadParsed(parse_manifest(file[1]))

\* manifest files: empty, one module, the same module twice (rejected by
\* validate_manifest), and a text the grammar rejects
ManifestFiles ==
    {None, Some(<<>>), Some(<<PlainBlock("a")>>),
     Some(<<PlainBlock("a"), PlainBlock("a")>>),
     Some(<<[PlainBlock("b") EXCEPT !.exports = << <<"P", Quoted(<<QUOTE>>)>> >>]>>)}

PackageStates ==
    [fetch_hash : {None, Some("h1")}, build_hash : {None, Some("h2")}]

SymlinkKeys == {".zshrc"}

SymlinkHashes == {"s1", "s2"}

InitStore ==
    /\ manifest \in ManifestFiles
    /\ lock = None
    /\ dist = [id \in Ids |-> FALSE]
    /\ sources = {}
    /\ cache = <<>>
    /\ edits = 0
    /\ last = [op |-> "init"]

\* init_sprout: "Create empty sprout.lock" unless the file exists
CmdInit ==
    /\ lock' = IF lock = None THEN EmptyLockFile ELSE lock
    /\ last' = [op |-> "init_sprout"]
    /\ UNCHANGED <<manifest, dist, sources, cache, edits>>

\* load, set_module_state, get_module_state, save
CmdSetState(id, state) ==
    \E mem \in {SproutLock_load(lock)} :
       \E after \in {[mem EXCEPT !.modules = set_module_state(mem.modules, id, state)]} :
          /\ lock' = SproutLock_save(after)
          /\ last' = [op |-> "set", id |-> id, state |-> state,
                      before |-> mem, after |-> after,
                      got |-> get_module_state(after.modules, id)]
          /\ UNCHANGED <<manifest, dist, sources, cache, edits>>

\* load, symlinks.insert, save
CmdSetSymlink(key, hash) ==
    \E mem \in {SproutLock_load(lock)} :
       \E after \in {[mem EXCEPT !.symlinks =
                         [k \in (DOMAIN mem.symlinks) \cup {key} |->
                             IF k = key THEN hash ELSE mem.symlinks[k]]]} :
          /\ lock' = SproutLock_save(after)
          /\ last' = [op |-> "symlink", before |-> mem, after |-> after]
          /\ UNCHANGED <<manifest, dist, sources, cache, edits>>

\* the start of a command: load_manifest(sprout_path)?, then
\* SproutLock::load(sprout_path)?
CmdLoad ==
    \E loaded \in {load_manifest(manifest)} :
       /\ last' = [op |-> "load", manifest_file |-> manifest,
                   lock_file |-> lock, manifest |-> loaded,
                   lock |-> IF loaded.ok THEN Some(SproutLock_load(lock))
                            ELSE None]
       /\ UNCHANGED <<manifest, lock, dist, sources, cache, edits>>

NextStore ==
    \/ CmdInit
    \/ \E id \in {"a", "b"}, state \in PackageStates : CmdSetState(id, state)
    \/ \E key \in SymlinkKeys, hash \in SymlinkHashes : CmdSetSymlink(key, hash)
    \/ CmdLoad

SpecStore == InitStore /\ [][NextStore]_vars

\* C22: loading the ledger when sprout.lock does not exist gives a ledger
\* without module records and without symlink entries, and load_manifest when
\* manifest.sprout does not exist gives a manifest without modules and
\* without environments; neither is an error.
C22_MissingFilesLoadEmpty ==
    last.op = "load" =>
        /\ last.manifest_file = None =>
              /\ last.manifest.ok
              /\ last.manifest.modules = <<>>
              /\ last.manifest.environments = None
        /\ (last.lock_file = None /\ last.manifest.ok) =>
              /\ last.lock # None
              /\ DOMAIN last.lock[1].modules = {}
              /\ DOMAIN last.lock[1].symlinks = {}

\* both files were loaded in a directory that has neither of them
C22_Witness ==
    /\ last.op = "load"
    /\ last.manifest_file = None
    /\ last.lock_file = None
    /\ last.manifest = Loaded(<<>>)
    /\ last.lock = Some(LockData(<<>>, <<>>))

StringChars == {"a", "n", BACKSLASH, QUOTE, WIDE}

InitString ==
    /\ manifest = <<>>
    /\ lock = <<>>
    /\ dist = [id \in Ids |-> FALSE]
    /\ sources = {}
    /\ cache = <<>>
    /\ edits = 0
    /\ \E body \in SeqsUpTo(StringChars, MaxString) :
          last = [op |-> "token", tok |-> Quoted(body)]

\* Rule::string => parse_string(pair): called on the tokens that are strings
CmdParseString ==
    /\ last.op = "token"
    /\ IsString(last.tok)
    /\ last' = [op |-> "parse_string", tok |-> last.tok,
                res |-> parse_string(last.tok)]
    /\ UNCHANGED <<manifest, lock, dist, sources, cache, edits>>

NextString == CmdParseString

SpecString == InitString /\ [][NextString]_vars

\* the character an escape sequence denotes
EscapeOf(c) ==
    IF c = "n" THEN NEWLINE
    ELSE IF c = "r" THEN CR
    ELSE IF c = "t" THEN TAB
    ELSE c

\* the text read once from left to right: a backslash followed by a quote, a
\* backslash, n, r or t gives one character, anything else is kept
RECURSIVE DecodeLeftToRight(_)
DecodeLeftToRight(text) ==
    IF text = <<>> THEN <<>>
    ELSE IF /\ text[1] = BACKSLASH
            /\ Len(text) >= 2
            /\ text[2] \in {QUOTE, BACKSLASH, "n", "r", "t"}
    THEN <<EscapeOf(text[2])>> \o DecodeLeftToRight(SubSeq(text, 3, Len(text)))
    ELSE <<text[1]>> \o DecodeLeftToRight(Tail(text))

\* C24: parse_string decodes every escape sequence of a quoted string to the
\* character it denotes, reading the text once from left to right (an escaped
\* backslash followed by n gives a backslash and an n), and keeps every other
\* character, Unicode included, as it is.
C24_EscapesDecodedLeftToRight ==
    last.op = "parse_string" =>
        /\ last.res.ok
        /\ last.res.value
             = DecodeLeftToRight(SubSeq(last.tok, 2, Len(last.tok) - 1))

\* ------------------------------------------------------------------------
\* Further properties of fetch_package and build_package (checked under Spec)

\* C25: with dry_run set, fetch_package and build_package invoke no fetcher and
\* no builder, create and remove no directory, and leave the manifest and the
\* ledger as they are; they report what would be done (or, for a fetch of a
\* module without a fetch block, that there is nothing to fetch).
C25_DryRunFrame ==
    [][(last'.op \in {"fetch", "build"} /\ last'.dry_run) =>
          /\ UNCHANGED <<manifest, lock, dist, sources, cache>>
          /\ ~last'.res.invoked
          /\ last'.op = "build" => last'.res.result = "would_build"
          /\ last'.op = "fetch" =>
                last'.res.result \in {"would_fetch", "no_fetch_config"}]_vars

\* a dry run of a forced rebuild of a module that is built and recorded, and
\* whose dist directory is still there
C25_Witness ==
    /\ last.op = "build"
    /\ last.dry_run
    /\ last.rebuild
    /\ last.res.result = "would_build"
    /\ dist[last.module]
    /\ last.module \in DOMAIN lock

\* C26: a build that build_package skips through the up-to-date fast path
\* never directly follows a failed build attempt of the same module: after a
\* forced rebuild of an unchanged module fails, the following build without
\* the rebuild flag runs the builder again.
C26_SkipOnlyAfterSuccess ==
    [][(/\ last.op = "build"
        /\ last.res.result \notin {"built", "up_to_date", "would_build"}
        /\ last'.op = "build"
        /\ last'.module = last.module)
          => last'.res.result # "up_to_date"]_vars

\* ------------------------------------------------------------------------
\* Failures inside one batch (checked under SpecBatch)

\* C27: within one `build --all` run, once the build of a module failed, every
\* later build attempt of a module that transitively depends on it fails its
\* dependency check and the builder is not invoked for it, also when the
\* failed module has no ledger record.
C27_FailureStopsDependents ==
    last.op = "build_all" =>
        \A i \in 1..Len(last.res.log) : \A j \in 1..Len(last.res.log) :
            (/\ i < j
             /\ AttemptFailed(last.res.log[i])
             /\ last.res.log[i].module
                   \in TransDeps(last.manifest, last.res.log[j].module))
                => /\ ~last.res.log[j].res.invoked
                   /\ last.res.log[j].res.result
                         \in {"dep_not_built", "dep_changed"}

\* ------------------------------------------------------------------------
\* Manifest rewrites by the tool (checked under SpecLedger)

\* the ledger holds the current build fingerprint of module m
BuildRecorded(lk, m) ==
    /\ get_module_state(lk, m.name) # None
    /\ get_module_state(lk, m.name)[1].build_hash = compute_build_hash(m)

\* C28: a manifest rewrite by the tool itself (the fetch that inserts a
\* computed sha256, `format -i`) leaves the build fingerprint of every module
\* unchanged, and the fetch fingerprint of every module whose fetch block it
\* did not edit; a module whose build fingerprint the ledger held before the
\* rewrite is still recorded with its current build fingerprint after it.
C28_RewriteKeepsFingerprints ==
    [][last'.op \in {"fetch", "format"} =>
          \A i \in 1..Len(manifest) :
              /\ compute_build_hash(manifest'[i]) = compute_build_hash(manifest[i])
              /\ (manifest'[i].fetch = manifest[i].fetch
                    => compute_fetch_hash(manifest'[i]) = compute_fetch_hash(manifest[i]))
              /\ (BuildRecorded(lock, manifest[i])
                    => BuildRecorded(lock', manifest'[i]))]_vars

\* ------------------------------------------------------------------------
\* Sources after a fetch (checked under Spec)

\* C29: right after fetch_package succeeded for an Http module, the source
\* directory that get_source_path yields for the module as the manifest now
\* declares it exists, also when the fetch inserted a computed sha256, and the
\* ledger's fetch fingerprint is the fingerprint of the module as now declared.
C29_SourcesWhereBuildLooks ==
    (/\ last.op = "fetch"
     /\ last.res.result = "fetched"
     /\ ModuleOf(manifest, last.module).fetch[1].spec.kind = "Http")
        => /\ get_source_path(ModuleOf(manifest, last.module)) \in sources
           /\ get_module_state(lock, last.module) # None
           /\ get_module_state(lock, last.module)[1].fetch_hash
                 = compute_fetch_hash(ModuleOf(manifest, last.module))

\* ------------------------------------------------------------------------
\* Commands that name their packages (cli.rs, handle_modules_command):
\* `fetch <ids>`, `build <ids>`, `install <ids>`, `install --with-deps <ids>`

\* an identifier that no manifest of the model declares
UnknownId == "z"

FetchLogged(package, f) ==
    Logged(f.w, <<Attempt(package.name, "fetch", f.res)>>)

\* fetch_package(sprout_path, package, dry_run)? of Fetch { packages }
FetchOne(w, package, opt) ==
    FetchLogged(package,
                fetch_package(w, package, opt.dry_run,
                              BatchFx(opt, package.name)))

\* the body of `for module_id in packages` once the package is found
NamedOne(w, package, mode, opt) ==
    IF mode = "fetch" THEN FetchOne(w, package, opt)
    ELSE IF mode = "build" THEN BuildOne(w, package, opt)
    ELSE InstallOne(w, package, opt)

\* the loop variables: the world, the log, the index of the next name, and
\* the error that ended the command ("" while there is none)
NamedAt(w, log, k, err, name) ==
    [w |-> w, log |-> log, k |-> k, err |-> err, name |-> name]

\* `?` after fetch_package and build_package: their error ends the command
NamedDone(at, one) ==
    NamedAt(one.w, at.log \o one.log, at.k + 1,
            IF \E i \in 1..Len(one.log) : AttemptFailed(one.log[i])
            THEN "failed" ELSE "",
            None)

\* .find(|p| p.id() == module_id || p.name == module_id)
\* .ok_or_else(|| anyhow!("Package not found: {}", module_id))?
NamedStep(at, modules, module_id, mode, opt) ==
    IF FindModule(modules, module_id) = 0
    THEN NamedAt(at.w, at.log, at.k, "package_not_found", Some(module_id))
    ELSE NamedDone(at, NamedOne(at.w, ModuleOf(modules, module_id), mode, opt))

RECURSIVE NamedLoop(_, _, _, _, _)
NamedLoop(at, modules, packages, mode, opt) ==
    IF at.err # "" \/ at.k > Len(packages)
    THEN at
    ELSE NamedLoop(NamedStep(at, modules, packages[at.k], mode, opt),
                   modules, packages, mode, opt)

NamedRes(at) ==
    [w |-> at.w,
     res |-> [ok |-> at.err = "", err |-> at.err, name |-> at.name,
              order |-> <<>>, log |-> at.log]]

\* Fetch { packages }, Build { packages }, Install { packages } without
\* --with-deps; the manifest is loaded once, before the loop
named_command(w, packages, mode, opt) ==
    NamedRes(NamedLoop(NamedAt(w, <<>>, 1, "", None), w.manifest, packages,
                       mode, opt))

\* most names on one command line
MaxNamed == 2

NamedPackages == SeqsUpTo({"a", "b", UnknownId}, MaxNamed) \ {<<>>}

NamedRequests == {{UnknownId}, {"b", UnknownId}, {"b"}}

NamedOptions(mode) ==
    [install : {mode = "install"}, dry_run : {FALSE}, rebuild : {FALSE},
     fetch_fails : IF mode = "build" THEN {{}} ELSE {{}, {"a"}},
     build_fails : IF mode = "fetch" THEN {{}} ELSE {{}, {"a"}}]

CmdNamed(packages, mode, opt) ==
    /\ BatchRound < MaxBatches
    /\ \E out \in {named_command(World, packages, mode, opt)} :
          /\ Apply(out.w)
          /\ last' = [op |-> mode, round |-> BatchRound + 1,
                      manifest |-> manifest, opt |-> opt,
                      packages |-> packages, res |-> out.res]
          /\ UNCHANGED edits

NextNamed ==
    \/ \E packages \in NamedPackages, opt \in NamedOptions("fetch") :
          CmdNamed(packages, "fetch", opt)
    \/ \E packages \in NamedPackages, opt \in NamedOptions("build") :
          CmdNamed(packages, "build", opt)
    \/ \E packages \in NamedPackages, opt \in NamedOptions("install") :
          CmdNamed(packages, "install", opt)
    \/ \E requested \in NamedRequests,
          queue0 \in Perms(ZeroDegree(manifest)),
          opt \in NamedOptions("install") :
          CmdInstallWithDeps(requested, queue0, opt)

SpecNamed == InitBatch /\ [][NextNamed]_vars

\* the names of the request of the step that are not in the manifest
UnknownNamed ==
    IF last'.op = "install_with_deps"
    THEN last'.requested \ Names(manifest)
    ELSE Range(last'.packages) \ Names(manifest)

\* the request names nothing that the manifest declares before its first
\* unknown name
UnknownComesFirst ==
    IF last'.op = "install_with_deps"
    THEN last'.requested \cap Names(manifest) = {}
    ELSE last'.packages[1] \notin Names(manifest)

\* C30: a fetch, build or install request that names a package the manifest
\* does not declare fails, also with --with-deps: with the error "Package not
\* found" naming such a package, unless a package named before it failed
\* first; when nothing known is named before it, the error is "Package not
\* found" and the request fetches nothing, builds nothing and leaves the
\* ledger, the manifest and the directories as they were.
C30_UnknownPackageRejected ==
    [][(/\ last'.op \in {"fetch", "build", "install", "install_with_deps"}
        /\ UnknownNamed # {})
          => /\ ~last'.res.ok
             /\ \/ /\ last'.res.err = "package_not_found"
                   /\ (last'.op # "install_with_deps"
                         => last'.res.name \in {Some(id) : id \in UnknownNamed})
                \/ \E i \in 1..Len(last'.res.log) :
                      AttemptFailed(last'.res.log[i])
             /\ (UnknownComesFirst
                   => /\ last'.res.err = "package_not_found"
                      /\ last'.res.log = <<>>
                      /\ UNCHANGED <<manifest, lock, dist, sources, cache>>)]_vars

====
